---- MODULE Spec2Model ----
(***************************************************************************)
(* A model of the eloise.rip tooling: the media transcoder                 *)
(* (transcode_videos.py), the post-build validator (validate_output.py),   *)
(* the voice uploader (voice_uploader/app.py) and the feed patches of the  *)
(* Pelican plugins (video_embed, feed_processor).                          *)
(*                                                                         *)
(* Each program has its own specification (SpecTranscode, SpecValidate,    *)
(* SpecUpload, SpecFeed); the variables of the other programs stay at      *)
(* their idle values.                                                      *)
(***************************************************************************)
EXTENDS Integers, Sequences, FiniteSets, TLC

VARIABLES
    \* ---- transcode_videos.py
    tpc,        \* position of main()
    force,      \* cfg.force
    srcExists,  \* cfg.src.exists()
    srcdir,     \* entries of the source directory
    exists,     \* output files present under cfg.dest
    queue,      \* sources still to be processed by main's loop
    cur,        \* the source transcode_file was last called with
    encodes,    \* the encode list built for cur
    idx,        \* position in the encode list
    ran,        \* history: the run_ffmpeg encode calls made for cur
    result,     \* history: how transcode_file ended for cur ("none": not yet)
    raised,     \* history: some transcode_file call raised an exception
    toolMissing,\* history: which_or_exit found a tool missing
    exitCode,   \* process exit status, NoExit while running
    alpha,      \* history: image_has_alpha's answer for cur (FALSE: not asked)
    \* ---- validate_output.py
    vpc,        \* position of main()
    outputDirExists, \* output_dir.exists()
    disk,       \* the files on disk, as absolute paths
    html,       \* the tags of each HTML file under the output directory
    checkExternal,   \* args.check_external
    internal_errors, \* errors returned by validate_internal_references
    referenced_media,\* its second result
    external_errors, \* errors returned by check_external_links
    requested,  \* history: the URLs requests.head was called with
    orphaned,   \* result of find_orphaned_media
    vExit,      \* process exit status, NoExit while running
    \* ---- voice_uploader/app.py
    jobs,       \* the jobs dictionary: job id -> record
    jobs_lock,  \* the thread holding jobs_lock, "free" when none
    nextId,     \* number of job ids uuid.uuid4() has generated
    uploadDir,  \* files saved under UPLOAD_DIR
    req,        \* the request each client thread is serving
    resp,       \* the response the last step sent, NoResponse if none
    wk,         \* the worker thread of each job
    issued,     \* history: job ids returned by an upload response
    unlocked,   \* the accesses to a job record the last step made without jobs_lock
    \* ---- pelican-plugins: video_embed, feed_processor
    fpc,        \* how far the site generation is
    plugins,    \* the plugins registered, in registration order
    css_class,  \* settings['VIDEO_EMBED_CLASS']
    source,     \* the article's content as the reader produced it
    content,    \* the article's _content
    summary,    \* the article's _summary, empty for None
    slot,       \* the get_content wrappers set on the article instance
    depth,      \* the patched _add_item_to_the_feed calls being executed
    exc,        \* whether an exception is propagating
    feed,       \* the content the last feed entry was given
    page,       \* the content the article's page was rendered with
    listed,     \* whether the article is in a generator's articles or pages
    relative_urls, \* settings['RELATIVE_URLS']
    siteurl,    \* settings['SITEURL']
    \* ---- pelican-plugins: carousel_embed
    cpc,        \* how far the expansion of one [[carousel:...]] marker is
    spec,       \* the marker's spec, the text after "carousel:"
    entries,    \* the entries of spec.split(';') still to be parsed
    label,      \* _parse_spec's label
    items,      \* _parse_spec's items
    imgs        \* the src of each <img> of the generated HTML

tvars == <<tpc, force, srcExists, srcdir, exists, queue, cur, encodes, idx,
           ran, result, raised, toolMissing, exitCode, alpha>>

vvars == <<vpc, outputDirExists, disk, html, checkExternal, internal_errors,
           referenced_media, external_errors, requested, orphaned, vExit>>

uvars == <<jobs, jobs_lock, nextId, uploadDir, req, resp, wk, issued, unlocked>>

fvars == <<fpc, plugins, css_class, source, content, summary, slot, depth, exc,
           feed, page, listed, relative_urls, siteurl>>

cvars == <<cpc, spec, entries, label, items, imgs>>

vars == <<tvars, vvars, uvars, fvars, cvars>>

\* what the actions of one program leave alone: the other programs
notTranscode == <<vvars, uvars, fvars, cvars>>
notValidate == <<tvars, uvars, fvars, cvars>>
notUpload == <<tvars, vvars, fvars, cvars>>
notFeed == <<tvars, vvars, uvars, cvars>>
notCarousel == <<tvars, vvars, uvars, fvars>>

-----------------------------------------------------------------------------
(* Strings are sequences of one-character strings.                         *)

\* The characters used by the model, in code-point (ASCII) order.
Chars ==
    <<"#", "-", ".", "/", "0", "1", "2", "3", "4", "5", "A", "E", "L", "M", "O",
      "Q", "T", "V", "_", "a", "b", "c", "d", "e", "f", "g", "h", "i", "j", "k",
      "m", "n", "o", "p", "q", "s", "t", "v", "w", "x">>

Ord(c) == CHOOSE i \in 1..Len(Chars) : Chars[i] = c

\* str.lower() on one character
LowerChar(c) ==
    CASE c = "A" -> "a" [] c = "E" -> "e" [] c = "L" -> "l"
      [] c = "M" -> "m" [] c = "O" -> "o" [] c = "Q" -> "q"
      [] c = "T" -> "t" [] c = "V" -> "v" [] OTHER -> c

Lower(s) == [i \in 1..Len(s) |-> LowerChar(s[i])]

IsDigit(c) == c \in {"0", "1", "2", "3", "4", "5"}

EndsWith(s, suf) ==
    /\ Len(suf) <= Len(s)
    /\ SubSeq(s, Len(s) - Len(suf) + 1, Len(s)) = suf

StartsWith(s, pre) ==
    /\ Len(pre) <= Len(s)
    /\ SubSeq(s, 1, Len(pre)) = pre

\* str.rfind('.') as a 1-based index, 0 when there is no dot
RFindDot(s) ==
    IF \E i \in 1..Len(s) : s[i] = "."
    THEN CHOOSE i \in 1..Len(s) :
            s[i] = "." /\ \A j \in (i+1)..Len(s) : s[j] # "."
    ELSE 0

\* PurePath.suffix: the last dot-component, '' for a leading or trailing dot
Suffix(name) ==
    LET i == RFindDot(name)
    IN IF 1 < i /\ i < Len(name) THEN SubSeq(name, i, Len(name)) ELSE <<>>

\* PurePath.stem
Stem(name) ==
    LET i == RFindDot(name)
    IN IF 1 < i /\ i < Len(name) THEN SubSeq(name, 1, i - 1) ELSE name

\* s < t in Python's string order (code points, a proper prefix is smaller)
StrLess(s, t) ==
    \E k \in 1..(Len(t)) :
        /\ \A j \in 1..(k-1) : j <= Len(s) /\ s[j] = t[j]
        /\ \/ k = Len(s) + 1
           \/ k <= Len(s) /\ Ord(s[k]) < Ord(t[k])

-----------------------------------------------------------------------------
(* transcode_videos.py                                                     *)

MaxSources == 2

VIDEO_EXT ==
    { <<".", "m", "p", "4">>, <<".", "m", "o", "v">>, <<".", "m", "k", "v">>,
      <<".", "a", "v", "i">>, <<".", "w", "e", "b", "m">>,
      <<".", "m", "4", "v">>, <<".", "g", "i", "f">> }
HEIC_EXT == { <<".", "h", "e", "i", "c">>, <<".", "h", "e", "i", "f">> }
IMAGE_EXT ==
    { <<".", "j", "p", "g">>, <<".", "j", "p", "e", "g">>,
      <<".", "p", "n", "g">>, <<".", "b", "m", "p">>,
      <<".", "t", "i", "f", "f">>, <<".", "t", "i", "f">>,
      <<".", "w", "e", "b", "p">> } \cup HEIC_EXT
ALLOWED_EXT == VIDEO_EXT \cup IMAGE_EXT

is_video_file(f) == Lower(Suffix(f.name)) \in VIDEO_EXT
is_image_file(f) == Lower(Suffix(f.name)) \in IMAGE_EXT
needs_heic_conversion(f) == Lower(Suffix(f.name)) \in HEIC_EXT

\* What the source directory may hold: files and one sub-directory.
SrcUniverse ==
    { [name |-> <<"a", ".", "M", "O", "V">>, isFile |-> TRUE],
      [name |-> <<"a", ".", "h", "e", "i", "c">>, isFile |-> TRUE],
      [name |-> <<"a", ".", "p", "n", "g">>, isFile |-> TRUE],
      [name |-> <<"b", ".", "j", "p", "g">>, isFile |-> TRUE],
      [name |-> <<"b", ".", "m", "p", "4">>, isFile |-> TRUE],
      [name |-> <<"b", ".", "t", "x", "t">>, isFile |-> TRUE],
      [name |-> <<"c", ".", "m", "p", "4">>, isFile |-> FALSE] }

NoFile == [name |-> <<>>, isFile |-> FALSE]
\* exitCode while the process is still running
NoExit == 0 - 1

\* the path dest/dir/stem+ext
Out(dir, f, ext) == [dir |-> dir, stem |-> Stem(f.name), ext |-> ext]

mp4_out(f) == Out("video", f, <<".", "m", "p", "4">>)
webm_out(f) == Out("video", f, <<".", "w", "e", "b", "m">>)
poster_out(f) == Out("video", f, <<".", "j", "p", "g">>)
avif_out(f) == Out("images", f, <<".", "a", "v", "i", "f">>)
webp_out(f) == Out("images", f, <<".", "w", "e", "b", "p">>)
jpg_out(f) == Out("images", f, <<".", "j", "p", "g">>)
png_out(f) == Out("images", f, <<".", "p", "n", "g">>)

\* the three encodes of transcode_video, in the order of the code
VideoEncodes(f) == <<mp4_out(f), webm_out(f), poster_out(f)>>

\* transcode_image with the PNG encode unconditional
ImageEncodesAlwaysPng(f, needs_png) ==
    <<avif_out(f), webp_out(f), jpg_out(f), png_out(f)>>

\* the encode list of transcode_image
ImageEncodes(f, needs_png) ==
    <<avif_out(f), webp_out(f), jpg_out(f)>>
        \o (IF needs_png THEN <<png_out(f)>> ELSE <<>>)

\* every output the entries of a directory can give rise to
OutputsOf(dir) ==
    UNION { IF is_video_file(f)
            THEN {mp4_out(f), webm_out(f), poster_out(f)}
            ELSE IF is_image_file(f)
            THEN {avif_out(f), webp_out(f), jpg_out(f), png_out(f)}
            ELSE {} : f \in dir }

\* the (directory, extension) pairs of the outputs
OutputKinds == { <<o.dir, o.ext>> : o \in OutputsOf(SrcUniverse) }

\* sorted(src_dir.iterdir()): ascending by name
RECURSIVE Sorted(_)
Sorted(S) ==
    IF S = {} THEN <<>>
    ELSE LET m == CHOOSE x \in S : \A y \in S \ {x} : StrLess(x.name, y.name)
         IN <<m>> \o Sorted(S \ {m})

RECURSIVE SelectSeqBy(_, _)
SelectSeqBy(s, keep) ==
    IF s = <<>> THEN <<>>
    ELSE (IF Head(s) \in keep THEN <<Head(s)>> ELSE <<>>)
            \o SelectSeqBy(Tail(s), keep)

\* discover_sources without its filter: every entry of the directory
discover_sources_unfiltered(dir) == Sorted(dir)

discover_sources(dir) ==
    SelectSeqBy(Sorted(dir),
        {p \in dir : p.isFile /\ Lower(Suffix(p.name)) \in ALLOWED_EXT})

\* mutant of SkipsExisting: --force is not consulted
SkipsExistingIgnoringForce(out) == out \in exists

\* the guard in front of every encode: skip an existing output unless forced
SkipsExisting(out) == ~force /\ out \in exists

\* the early return of transcode_video
VideoOutputsExist(f) ==
    ~force /\ mp4_out(f) \in exists /\ webm_out(f) \in exists
           /\ poster_out(f) \in exists

TInit ==
    /\ tpc = "which_ffmpeg"
    /\ force \in BOOLEAN
    /\ srcExists \in BOOLEAN
    /\ srcdir \in {S \in SUBSET SrcUniverse :
                      Cardinality(S) <= MaxSources /\ (~srcExists => S = {})}
    /\ \E K \in SUBSET OutputKinds :
          exists = {o \in OutputsOf(srcdir) : <<o.dir, o.ext>> \in K}
    /\ queue = <<>>
    /\ cur = NoFile
    /\ encodes = <<>>
    /\ idx = 0
    /\ ran = {}
    /\ result = "none"
    /\ raised = FALSE
    /\ toolMissing = FALSE
    /\ exitCode = NoExit
    /\ alpha = FALSE

Exit(code) ==
    /\ tpc' = "exit"
    /\ exitCode' = code

\* which_or_exit("ffmpeg"): shutil.which finds the tool or the process exits 1
WhichFfmpeg ==
    /\ UNCHANGED notTranscode
    /\ tpc = "which_ffmpeg"
    /\ \E found \in BOOLEAN :
          IF found
          THEN tpc' = "which_ffprobe" /\ UNCHANGED <<exitCode, toolMissing>>
          ELSE Exit(1) /\ toolMissing' = TRUE
    /\ UNCHANGED <<alpha, force, srcExists, srcdir, exists, queue, cur, encodes, idx,
                   ran, result, raised>>

\* which_or_exit("ffprobe")
WhichFfprobe ==
    /\ UNCHANGED notTranscode
    /\ tpc = "which_ffprobe"
    /\ \E found \in BOOLEAN :
          IF found
          THEN tpc' = "check_src" /\ UNCHANGED <<exitCode, toolMissing>>
          ELSE Exit(1) /\ toolMissing' = TRUE
    /\ UNCHANGED <<alpha, force, srcExists, srcdir, exists, queue, cur, encodes, idx,
                   ran, result, raised>>

\* main: a missing source directory is created and main returns 0
CreateSrc ==
    /\ UNCHANGED notTranscode
    /\ tpc = "check_src"
    /\ ~srcExists
    /\ srcExists' = TRUE
    /\ Exit(0)
    /\ UNCHANGED <<alpha, force, srcdir, exists, queue, cur, encodes, idx, ran,
                   result, raised, toolMissing>>

\* main: discover the sources; none -> return 0
Discover ==
    /\ UNCHANGED notTranscode
    /\ tpc = "check_src"
    /\ srcExists
    /\ LET sources == discover_sources(srcdir)
       IN IF sources = <<>>
          THEN Exit(0) /\ UNCHANGED queue
          ELSE tpc' = "loop" /\ queue' = sources /\ UNCHANGED exitCode
    /\ UNCHANGED <<alpha, force, srcExists, srcdir, exists, cur, encodes, idx, ran,
                   result, raised, toolMissing>>

\* main: the loop is over, return 0
Complete ==
    /\ UNCHANGED notTranscode
    /\ tpc = "loop"
    /\ queue = <<>>
    /\ Exit(0)
    /\ UNCHANGED <<alpha, force, srcExists, srcdir, exists, queue, cur, encodes, idx,
                   ran, result, raised, toolMissing>>

\* transcode_file returned: "[DONE]" is printed and the loop goes on
Done ==
    /\ result' = "done"
    /\ tpc' = "loop"

\* main's loop takes the next source; transcode_file classifies it
TranscodeFile ==
    /\ UNCHANGED notTranscode
    /\ tpc = "loop"
    /\ queue # <<>>
    /\ LET f == Head(queue)
       IN /\ queue' = Tail(queue)
          /\ cur' = f
          /\ IF is_video_file(f)
             THEN tpc' = "video" /\ result' = "none"
             ELSE IF is_image_file(f)
             THEN tpc' = "image" /\ result' = "none"
             ELSE tpc' = "loop" /\ result' = "unknown"
    /\ encodes' = <<>>
    /\ idx' = 0
    /\ ran' = {}
    /\ alpha' = FALSE
    /\ UNCHANGED <<force, srcExists, srcdir, exists, raised, toolMissing,
                   exitCode>>

\* transcode_video up to its early return
VideoEntry ==
    /\ UNCHANGED notTranscode
    /\ tpc = "video"
    /\ IF VideoOutputsExist(cur)
       THEN Done /\ UNCHANGED <<encodes, idx>>
       ELSE /\ tpc' = "encode"
            /\ encodes' = VideoEncodes(cur)
            /\ idx' = 1
            /\ UNCHANGED result
    /\ UNCHANGED <<alpha, force, srcExists, srcdir, exists, queue, cur, ran, raised,
                   toolMissing, exitCode>>

\* transcode_image: prepare_image_source fails for a HEIC source when Pillow or
\* pillow-heif is missing or the conversion raises; nothing is encoded, and
\* transcode_file still prints "[DONE]"
HeicSkip ==
    /\ UNCHANGED notTranscode
    /\ tpc = "image"
    /\ needs_heic_conversion(cur)
    /\ result' = "heic_skip"
    /\ tpc' = "loop"
    /\ UNCHANGED <<alpha, force, srcExists, srcdir, exists, queue, cur, encodes, idx,
                   ran, raised, toolMissing, exitCode>>

\* transcode_image up to its encode loop. needs_png is an `or': image_has_alpha
\* (ffprobe's answer, any of the two) is asked only when the lower-cased suffix
\* of the source is neither .png nor .webp
ImageEntry ==
    /\ UNCHANGED notTranscode
    /\ tpc = "image"
    /\ \E has_alpha \in BOOLEAN :
          LET by_suffix ==
                Lower(Suffix(cur.name)) \in
                    { <<".", "p", "n", "g">>, <<".", "w", "e", "b", "p">> }
              needs_png == by_suffix \/ has_alpha
          IN /\ encodes' = ImageEncodes(cur, needs_png)
             /\ alpha' = (~by_suffix /\ has_alpha)
    /\ tpc' = "encode"
    /\ idx' = 1
    /\ UNCHANGED <<force, srcExists, srcdir, exists, queue, cur, ran, result,
                   raised, toolMissing, exitCode>>

\* after the encode at idx: the next one, or the end of transcode_file
Advance ==
    IF idx = Len(encodes)
    THEN Done /\ UNCHANGED idx
    ELSE idx' = idx + 1 /\ UNCHANGED <<tpc, result>>

\* one iteration over the outputs: the output exists and is skipped
SkipEncode ==
    /\ UNCHANGED notTranscode
    /\ tpc = "encode"
    /\ SkipsExisting(encodes[idx])
    /\ Advance
    /\ UNCHANGED <<alpha, force, srcExists, srcdir, exists, queue, cur, encodes, ran,
                   raised, toolMissing, exitCode>>

\* one iteration over the outputs: run_ffmpeg is called; ffmpeg -y leaves the
\* output on success and may or may not leave one when it fails
RunEncode ==
    /\ UNCHANGED notTranscode
    /\ tpc = "encode"
    /\ ~SkipsExisting(encodes[idx])
    /\ LET out == encodes[idx]
       IN /\ ran' = ran \cup {[out |-> out, existed |-> out \in exists]}
          /\ \E written \in BOOLEAN :
                exists' = IF written THEN exists \cup {out} ELSE exists
    /\ Advance
    /\ UNCHANGED <<alpha, force, srcExists, srcdir, queue, cur, encodes, raised,
                   toolMissing, exitCode>>

InFile == tpc \in {"video", "image", "encode"}

\* an exception other than KeyboardInterrupt inside transcode_file: main
\* prints it and goes on with the next source
UnexpectedError ==
    /\ UNCHANGED notTranscode
    /\ InFile
    /\ result' = "raised"
    /\ raised' = TRUE
    /\ tpc' = "loop"
    /\ UNCHANGED <<alpha, force, srcExists, srcdir, exists, queue, cur, encodes, idx,
                   ran, toolMissing, exitCode>>

\* KeyboardInterrupt inside transcode_file: main returns 2
Interrupted ==
    /\ UNCHANGED notTranscode
    /\ InFile
    /\ result' = "interrupted"
    /\ Exit(2)
    /\ UNCHANGED <<alpha, force, srcExists, srcdir, exists, queue, cur, encodes, idx,
                   ran, raised, toolMissing>>

TNext ==
    \/ WhichFfmpeg \/ WhichFfprobe \/ CreateSrc \/ Discover \/ Complete
    \/ TranscodeFile \/ VideoEntry \/ HeicSkip \/ ImageEntry
    \/ SkipEncode \/ RunEncode \/ UnexpectedError \/ Interrupted


-----------------------------------------------------------------------------
(* validate_output.py                                                      *)
(* A path is the sequence of its components below the filesystem root; a   *)
(* component, like an href, is a string (a sequence of characters).        *)

MaxTags == 2
MaxFiles == 2

\* the subsets of S with at most n elements
RECURSIVE SubsetsUpTo(_, _)
SubsetsUpTo(S, n) ==
    IF n = 0 THEN {{}}
    ELSE LET smaller == SubsetsUpTo(S, n - 1)
         IN smaller \cup {A \cup {x} : A \in smaller, x \in S}

SL == <<"/">>
S_srv == <<"s", "r", "v">>
S_out == <<"o", "u", "t">>
S_media == <<"m", "e", "d", "i", "a">>
S_images == <<"i", "m", "a", "g", "e", "s">>
S_video == <<"v", "i", "d", "e", "o">>
S_voice == <<"v", "o", "i", "c", "e">>
S_theme == <<"t", "h", "e", "m", "e">>
S_posts == <<"p", "o", "s", "t", "s">>
S_up == <<".", ".">>
N_index == <<"i", "n", "d", "e", "x", ".", "h", "t", "m", "l">>
N_post == <<"p", ".", "h", "t", "m", "l">>
N_about == <<"a", "b", ".", "h", "t", "m", "l">>
N_notes == <<"n", ".", "h", "t", "m", "l">>
N_css == <<"s", ".", "c", "s", "s">>
N_x_avif == <<"x", ".", "a", "v", "i", "f">>
N_x_jpg == <<"x", ".", "j", "p", "g">>
N_v_mp4 == <<"v", ".", "m", "p", "4">>
N_c_m4a == <<"c", ".", "m", "4", "a">>
N_x_mp4 == <<"x", ".", "m", "p", "4">>
U_https == <<"h", "t", "t", "p", "s", ":", "/", "/", "e", "/">>
U_cdn == <<"/", "/", "c", "/", "x", ".", "j", "p", "g">>
U_http == <<"h", "t", "t", "p", ":", "/", "/", "e", "/", "x", ".", "j", "p", "g">>
U_anchor == <<"#", "t", "o", "p">>

\* Path(args.output_dir).resolve()
output_dir == <<S_srv, S_out>>

\* the return value None of normalize_path (no path has an empty component)
None == << <<>> >>

IsPrefix(p, q) == Len(p) <= Len(q) /\ SubSeq(q, 1, Len(p)) = p

\* str.split('/')
RECURSIVE SplitFrom(_, _, _)
SplitFrom(s, i, seg) ==
    IF i > Len(s) THEN <<seg>>
    ELSE IF s[i] = "/" THEN <<seg>> \o SplitFrom(s, i + 1, <<>>)
    ELSE SplitFrom(s, i + 1, Append(seg, s[i]))

\* the components pathlib keeps of a relative path string: empty and "."
\* components are dropped
Parts(s) ==
    SelectSeq(SplitFrom(s, 1, <<>>), LAMBDA seg : seg # <<>> /\ seg # <<".">>)

\* str.lstrip('/')
RECURSIVE LStripSlash(_)
LStripSlash(s) ==
    IF s # <<>> /\ Head(s) = "/" THEN LStripSlash(Tail(s)) ELSE s

\* Path.resolve() of an absolute path without symlinks: ".." pops a component
RECURSIVE ResolveFrom(_, _)
ResolveFrom(base, parts) ==
    IF parts = <<>> THEN base
    ELSE IF Head(parts) = S_up
    THEN ResolveFrom(IF base = <<>> THEN <<>>
                     ELSE SubSeq(base, 1, Len(base) - 1), Tail(parts))
    ELSE ResolveFrom(Append(base, Head(parts)), Tail(parts))

\* Path.parent
Parent(p) == SubSeq(p, 1, Len(p) - 1)

\* mutant of IsExternal: a scheme-less // URL is not taken as external
IsExternalWithScheme(href) ==
    \/ StartsWith(href, <<"h", "t", "t", "p", ":", "/", "/">>)
    \/ StartsWith(href, <<"h", "t", "t", "p", "s", ":", "/", "/">>)

\* href.startswith(('http://', 'https://', '//'))
IsExternal(href) ==
    \/ StartsWith(href, <<"h", "t", "t", "p", ":", "/", "/">>)
    \/ StartsWith(href, <<"h", "t", "t", "p", "s", ":", "/", "/">>)
    \/ StartsWith(href, <<"/", "/">>)

\* href.startswith(('#', 'mailto:'))
IsAnchorOrMail(href) ==
    \/ StartsWith(href, <<"#">>)
    \/ StartsWith(href, <<"m", "a", "i", "l", "t", "o", ":">>)

\* normalize_path (the hrefs of the model hold no whitespace and no %-escape,
\* which strip() and unquote() leave as they are)
normalize_path(href, source_html) ==
    IF href = <<>> \/ IsAnchorOrMail(href) \/ IsExternal(href)
    THEN None
    ELSE IF StartsWith(href, SL)
    THEN ResolveFrom(output_dir, Parts(LStripSlash(href)))
    ELSE IF StartsWith(href, S_media \o SL)
    THEN ResolveFrom(output_dir, Parts(href))
    ELSE ResolveFrom(Parent(source_html), Parts(href))

\* Path.exists(): a file, or a directory that holds one
Exists(p) == \E f \in disk : IsPrefix(p, f)

\* the HTML files of the output directory (output_dir.rglob('*.html'))
HtmlFiles == { output_dir \o <<N_index>>, output_dir \o <<S_posts, N_post>> }

\* the other files that may be on disk
OtherFiles ==
    { output_dir \o <<N_about>>,
      output_dir \o <<S_theme, N_css>>,
      output_dir \o <<S_media, S_images, N_x_avif>>,
      output_dir \o <<S_media, S_images, N_x_jpg>>,
      output_dir \o <<S_media, S_video, N_v_mp4>>,
      output_dir \o <<S_media, S_voice, N_c_m4a>>,
      output_dir \o <<S_media, N_x_mp4>> }

\* the tags an HTML file may hold: [tag, url, ctx]; ctx is the rel of a
\* <link> and the parent element of a <source>
Tag(tag, url, ctx) == [tag |-> tag, url |-> url, ctx |-> ctx]

TagUniverse ==
    { Tag("a", N_about, ""),
      Tag("a", S_up \o SL \o N_notes, ""),
      Tag("a", U_https, ""),
      Tag("a", U_anchor, ""),
      Tag("img", SL \o S_media \o SL \o S_images \o SL \o N_x_avif, ""),
      Tag("img", S_media \o SL \o S_images \o SL \o N_x_jpg, ""),
      Tag("img", S_up \o SL \o S_media \o SL \o S_images \o SL \o N_x_avif, ""),
      Tag("img", U_cdn, ""),
      Tag("img", U_http, ""),
      Tag("source", SL \o S_media \o SL \o S_video \o SL \o N_v_mp4, "video"),
      Tag("video", SL \o S_media \o SL \o S_images \o SL \o N_x_jpg, ""),
      Tag("audio", SL \o S_media \o SL \o S_voice \o SL \o N_c_m4a, ""),
      Tag("link", SL \o S_theme \o SL \o N_css, "stylesheet") }

\* extract_references: the (kind, href) pairs collected from the tags of a file
extract_references(tags) ==
    { [kind |-> "links", href |-> t.url] :
         t \in {x \in tags : x.tag = "a" /\ ~IsExternal(x.url)
                                /\ ~IsAnchorOrMail(x.url)} }
    \cup { [kind |-> "external", href |-> t.url] :
         t \in {x \in tags : x.tag = "a" /\ IsExternal(x.url)} }
    \cup { [kind |-> "images", href |-> t.url] :
         t \in {x \in tags : x.tag = "img"} }
    \cup { [kind |-> "posters", href |-> t.url] :
         t \in {x \in tags : x.tag = "video" /\ x.url # <<>>} }
    \cup { [kind |-> "videos", href |-> t.url] :
         t \in {x \in tags : x.tag = "source" /\ x.ctx = "video"} }
    \cup { [kind |-> "audio", href |-> t.url] :
         t \in {x \in tags : x.tag = "audio"} }
    \cup { [kind |-> "css", href |-> t.url] :
         t \in {x \in tags : x.tag = "link" /\ x.ctx = "stylesheet"} }

InternalKinds == {"links", "images", "videos", "posters", "audio", "css"}
MediaKinds == {"images", "videos", "posters", "audio"}

\* the internal references of HTML file h whose target is missing
BrokenRefs(h) ==
    { r \in extract_references(html[h]) :
         /\ r.kind \in InternalKinds
         /\ normalize_path(r.href, h) # None
         /\ ~Exists(normalize_path(r.href, h)) }

\* target.relative_to(output_dir) raises ValueError for a path outside of it;
\* only the "Broken link" message of an <a href> evaluates it
RaisesValueError(h) ==
    \E r \in BrokenRefs(h) :
        r.kind = "links" /\ ~IsPrefix(output_dir, normalize_path(r.href, h))

\* validate_internal_references: the errors dictionary, as (source, error) pairs
ErrorsOf(h) == { [source |-> h, kind |-> r.kind, href |-> r.href] :
                    r \in BrokenRefs(h) }

\* validate_internal_references: the referenced_media set
ReferencedOf(h) ==
    { normalize_path(r.href, h) :
         r \in { x \in extract_references(html[h]) :
                    x.kind \in MediaKinds /\ normalize_path(x.href, h) # None } }

\* the external links of all HTML files
ExternalLinks ==
    UNION { { r.href : r \in { x \in extract_references(html[h]) :
                                   x.kind = "external" } } : h \in HtmlFiles }

media_dir == output_dir \o <<S_media>>

\* the extensions find_orphaned_media globs for
MediaGlobs ==
    { <<".", "a", "v", "i", "f">>, <<".", "j", "p", "g">>,
      <<".", "m", "p", "4">>, <<".", "m", "4", "a">> }

all_media ==
    { p \in disk : IsPrefix(media_dir, p) /\ Len(p) > Len(media_dir)
                      /\ Suffix(p[Len(p)]) \in MediaGlobs }

\* Path.with_suffix('.avif')
WithSuffixAvif(p) ==
    [p EXCEPT ![Len(p)] = Stem(p[Len(p)]) \o <<".", "a", "v", "i", "f">>]

\* str(path): the components joined by '/'
RECURSIVE Join(_)
Join(p) ==
    IF p = <<>> THEN <<>>
    ELSE IF Len(p) = 1 THEN p[1]
    ELSE p[1] \o SL \o Join(Tail(p))

\* sub in s
Contains(s, sub) ==
    \E i \in 1..(Len(s) - Len(sub) + 1) : SubSeq(s, i, i + Len(sub) - 1) = sub

\* media_file.relative_to(output_dir)
RelPath(p) == SubSeq(p, Len(output_dir) + 1, Len(p))

IsFallback(p, referenced) ==
    Suffix(p[Len(p)]) = <<".", "j", "p", "g">> /\ WithSuffixAvif(p) \in referenced

\* the category find_orphaned_media puts an unreferenced file in ("" for none)
Category(p, referenced) ==
    IF IsFallback(p, referenced) THEN "fallbacks"
    ELSE IF Contains(Join(RelPath(p)), S_images) THEN "images"
    ELSE IF Contains(Join(RelPath(p)), S_video) THEN "videos"
    ELSE IF Contains(Join(RelPath(p)), S_voice) THEN "audio"
    ELSE ""

find_orphaned_media(referenced) ==
    LET unreferenced == IF Exists(media_dir) THEN all_media \ referenced ELSE {}
    IN [c \in {"images", "videos", "audio", "fallbacks"} |->
           {p \in unreferenced : Category(p, referenced) = c}]

NoOrphans == [c \in {"images", "videos", "audio", "fallbacks"} |-> {}]

\* mutant of has_errors: orphaned media count as errors
has_errors_with_orphans(internal, external, orph) ==
    internal # {} \/ external # {}
        \/ orph["images"] \cup orph["videos"] \cup orph["audio"] # {}

\* print_report: has_errors = bool(internal_errors or external_errors)
has_errors(internal, external, orph) == internal # {} \/ external # {}

VInit ==
    /\ vpc = "main"
    /\ outputDirExists \in BOOLEAN
    /\ checkExternal \in BOOLEAN
    /\ IF outputDirExists
       THEN /\ \E F \in SubsetsUpTo(OtherFiles, MaxFiles) :
                  disk = HtmlFiles \cup F
            /\ \E T \in SubsetsUpTo(HtmlFiles \X TagUniverse, MaxTags) :
                  html = [h \in HtmlFiles |-> {t[2] : t \in {x \in T : x[1] = h}}]
       ELSE /\ disk = {}
            /\ html = [h \in HtmlFiles |-> {}]
    /\ internal_errors = {}
    /\ referenced_media = {}
    /\ external_errors = {}
    /\ requested = {}
    /\ orphaned = NoOrphans
    /\ vExit = NoExit

\* main: the output directory is missing, return 1
OutputDirMissing ==
    /\ UNCHANGED notValidate
    /\ vpc = "main"
    /\ ~outputDirExists
    /\ vpc' = "exit"
    /\ vExit' = 1
    /\ UNCHANGED <<outputDirExists, disk, html, checkExternal, internal_errors,
                   referenced_media, external_errors, requested, orphaned>>

\* main: validate_internal_references over every HTML file; an uncaught
\* ValueError ends the process with a traceback and status 1
ValidateInternal ==
    /\ UNCHANGED notValidate
    /\ vpc = "main"
    /\ outputDirExists
    /\ IF \E h \in HtmlFiles : RaisesValueError(h)
       THEN /\ vpc' = "crashed"
            /\ vExit' = 1
            /\ UNCHANGED <<internal_errors, referenced_media>>
       ELSE /\ vpc' = "external"
            /\ internal_errors' = UNION {ErrorsOf(h) : h \in HtmlFiles}
            /\ referenced_media' = UNION {ReferencedOf(h) : h \in HtmlFiles}
            /\ UNCHANGED vExit
    /\ UNCHANGED <<outputDirExists, disk, html, checkExternal, external_errors,
                   requested, orphaned>>

\* main: external links are not checked without --check-external
SkipExternal ==
    /\ UNCHANGED notValidate
    /\ vpc = "external"
    /\ ~checkExternal
    /\ vpc' = "orphans"
    /\ UNCHANGED <<outputDirExists, disk, html, checkExternal, internal_errors,
                   referenced_media, external_errors, requested, orphaned, vExit>>

\* check_external_links: requests.head on every external link; a status of
\* 400 or more, or a RequestException, is an error
CheckExternal ==
    /\ UNCHANGED notValidate
    /\ vpc = "external"
    /\ checkExternal
    /\ requested' = ExternalLinks
    /\ \E failed \in SUBSET ExternalLinks : external_errors' = failed
    /\ vpc' = "orphans"
    /\ UNCHANGED <<outputDirExists, disk, html, checkExternal, internal_errors,
                   referenced_media, orphaned, vExit>>

\* main: find_orphaned_media, then print_report gives the exit status
Report ==
    /\ UNCHANGED notValidate
    /\ vpc = "orphans"
    /\ orphaned' = find_orphaned_media(referenced_media)
    /\ vExit' = IF has_errors(internal_errors, external_errors,
                              find_orphaned_media(referenced_media))
                THEN 1 ELSE 0
    /\ vpc' = "exit"
    /\ UNCHANGED <<outputDirExists, disk, html, checkExternal, internal_errors,
                   referenced_media, external_errors, requested>>

VNext ==
    \/ OutputDirMissing \/ ValidateInternal \/ SkipExternal \/ CheckExternal
    \/ Report

\* the validator before it is started
VIdle ==
    /\ vpc = "idle"
    /\ outputDirExists = FALSE
    /\ checkExternal = FALSE
    /\ disk = {}
    /\ html = [h \in HtmlFiles |-> {}]
    /\ internal_errors = {}
    /\ referenced_media = {}
    /\ external_errors = {}
    /\ requested = {}
    /\ orphaned = NoOrphans
    /\ vExit = NoExit

\* the transcoder before it is started
TIdle ==
    /\ tpc = "idle"
    /\ force = FALSE
    /\ srcExists = FALSE
    /\ srcdir = {}
    /\ exists = {}
    /\ queue = <<>>
    /\ cur = NoFile
    /\ encodes = <<>>
    /\ idx = 0
    /\ ran = {}
    /\ result = "none"
    /\ raised = FALSE
    /\ toolMissing = FALSE
    /\ exitCode = NoExit
    /\ alpha = FALSE

-----------------------------------------------------------------------------
(* voice_uploader/app.py                                                   *)

MaxJobs == 1

\* the threads serving HTTP requests
Clients == {"c1", "c2"}

\* the worker thread started for job id
Worker(id) == <<"w1", "w2", "w3", "w4">>[id]

JobIds == 1..MaxJobs

\* the job ids a client may ask about: every id an upload can return, and one
\* that is never generated
ProbeIds == 1..(MaxJobs + 1)

\* request.files.get("file"): absent, or an upload with its filename
NoUpload == [present |-> FALSE, filename |-> <<>>]
Upload(name) == [present |-> TRUE, filename |-> name]

UploadInputs ==
    { NoUpload,
      Upload(<<>>),
      Upload(<<".", ".", "/", "A", "_", "0", "2", "-", "1", "0", ".", "Q", "T", "A">>),
      Upload(<<"n", ".", "q", "t", "a">>),
      Upload(<<"1", "-", "2", "3", ".", "q", "t", "a">>),
      Upload(<<"0", "2", "-", "1", "0", ".", "m", "p", "3">>),
      Upload(<<".", "q", "t", "a">>) }

\* the characters secure_filename keeps
IsFilenameChar(c) ==
    c \in {"-", ".", "_", "0", "1", "2", "3", "4", "5", "A", "M", "O", "Q",
           "T", "V", "a", "b", "c", "d", "e", "f", "g", "h", "i", "j", "k",
           "m", "n", "o", "p", "q", "s", "t", "v", "w", "x"}

RECURSIVE LStripDotUnderscore(_)
LStripDotUnderscore(s) ==
    IF s # <<>> /\ Head(s) \in {".", "_"}
    THEN LStripDotUnderscore(Tail(s)) ELSE s

RECURSIVE RStripDotUnderscore(_)
RStripDotUnderscore(s) ==
    IF s # <<>> /\ s[Len(s)] \in {".", "_"}
    THEN RStripDotUnderscore(SubSeq(s, 1, Len(s) - 1)) ELSE s

\* werkzeug's secure_filename: path separators become "_", characters outside
\* [A-Za-z0-9_.-] are dropped, leading and trailing "." and "_" are stripped
secure_filename(name) ==
    LET sep == [i \in 1..Len(name) |-> IF name[i] = "/" THEN "_" ELSE name[i]]
    IN RStripDotUnderscore(LStripDotUnderscore(
          SelectSeq(sep, IsFilenameChar)))

\* CLIP_ID_PATTERN matches at position i of s: \d{2}-\d{2}
ClipIdAt(s, i) ==
    /\ i + 4 <= Len(s)
    /\ IsDigit(s[i]) /\ IsDigit(s[i+1]) /\ s[i+2] = "-"
    /\ IsDigit(s[i+3]) /\ IsDigit(s[i+4])

\* build_output_filename: the first clip id of the stem plus ".m4a", or None
build_output_filename(input_name) ==
    LET stem == Stem(input_name)
    IN IF \E i \in 1..Len(stem) : ClipIdAt(stem, i)
       THEN LET i == CHOOSE k \in 1..Len(stem) :
                        ClipIdAt(stem, k) /\ \A m \in 1..(k-1) : ~ClipIdAt(stem, m)
            IN SubSeq(stem, i, i + 4) \o <<".", "m", "4", "a">>
       ELSE <<>>

\* mutant of HasQtaSuffix: the comparison is case-sensitive
HasQtaSuffixCaseSensitive(safe_name) ==
    EndsWith(safe_name, <<".", "q", "t", "a">>)

\* safe_name.lower().endswith(".qta")
HasQtaSuffix(safe_name) == EndsWith(Lower(safe_name), <<".", "q", "t", "a">>)

\* the status upload_audio answers before it creates anything: 400, or 0 when
\* the upload is accepted
UploadCheck(file) ==
    IF ~file.present \/ file.filename = <<>> THEN 400
    ELSE IF ~HasQtaSuffix(secure_filename(file.filename)) THEN 400
    ELSE IF build_output_filename(secure_filename(file.filename)) = <<>> THEN 400
    ELSE 0

NoJob == 0
Idle == [pc |-> "idle", kind |-> "none", file |-> NoUpload, id |-> NoJob,
         known |-> FALSE, job |-> NoJob, status |-> "none"]
NoResponse == [kind |-> "none", code |-> 0, file |-> NoUpload, id |-> NoJob,
               known |-> FALSE, status |-> "none", completed |-> FALSE]

\* the record upload_audio stores for a new job
NewJob(safe_name, output_filename) ==
    [status |-> "pending", input_filename |-> safe_name,
     output_filename |-> output_filename, output_path |-> FALSE,
     completed_at |-> FALSE]

\* str(uuid.uuid4()): an identifier no earlier call returned
NewJobId == nextId + 1

\* jobs[job_id] = {...}
InsertJob(id, rec) == [k \in DOMAIN jobs \cup {id} |->
                          IF k = id THEN rec ELSE jobs[k]]

\* jobs.get(job_id): the record's key, NoJob for None
GetJob(id) == IF id \in DOMAIN jobs THEN id ELSE NoJob

\* a read or write of a job record by thread t; it is logged when t does not
\* hold jobs_lock
Access(t, what) ==
    unlocked' = IF jobs_lock = t THEN {} ELSE {what}

UInit ==
    /\ jobs = << >>
    /\ jobs_lock = "free"
    /\ nextId = 0
    /\ uploadDir = {}
    /\ req = [c \in Clients |-> Idle]
    /\ resp = NoResponse
    /\ wk = [id \in {} |-> "none"]
    /\ issued = {}
    /\ unlocked = {}

Respond(c, r) ==
    /\ resp' = r
    /\ req' = [req EXCEPT ![c] = Idle]

\* ---- POST /api/upload

\* upload_audio: one of the three checks fails, the answer is 400
UploadReject(c) ==
    /\ UNCHANGED notUpload
    /\ req[c].pc = "idle"
    /\ \E file \in UploadInputs :
          /\ UploadCheck(file) = 400
          /\ Respond(c, [NoResponse EXCEPT !.kind = "upload", !.code = 400,
                                          !.file = file])
    /\ unlocked' = {}
    /\ UNCHANGED <<jobs, jobs_lock, nextId, uploadDir, wk, issued>>

\* upload_audio: the checks pass, a job id is generated and the file is saved
UploadSave(c) ==
    /\ UNCHANGED notUpload
    /\ req[c].pc = "idle"
    /\ nextId < MaxJobs
    /\ \E file \in UploadInputs :
          /\ UploadCheck(file) = 0
          /\ nextId' = NewJobId
          /\ uploadDir' = uploadDir \cup
                {[id |-> NewJobId, name |-> secure_filename(file.filename)]}
          /\ req' = [req EXCEPT ![c] =
                [Idle EXCEPT !.pc = "upload_lock", !.kind = "upload",
                             !.file = file, !.id = NewJobId]]
    /\ resp' = NoResponse
    /\ unlocked' = {}
    /\ UNCHANGED <<jobs, jobs_lock, wk, issued>>

\* upload_audio: file.save raises, the answer is 500 and no job is created
UploadSaveFails(c) ==
    /\ UNCHANGED notUpload
    /\ req[c].pc = "idle"
    /\ nextId < MaxJobs
    /\ \E file \in UploadInputs :
          /\ UploadCheck(file) = 0
          /\ nextId' = NewJobId
          /\ Respond(c, [NoResponse EXCEPT !.kind = "upload", !.code = 500,
                                          !.file = file])
    /\ unlocked' = {}
    /\ UNCHANGED <<jobs, jobs_lock, uploadDir, wk, issued>>

\* upload_audio: with jobs_lock (entry)
UploadLock(c) ==
    /\ UNCHANGED notUpload
    /\ req[c].pc = "upload_lock"
    /\ jobs_lock = "free"
    /\ jobs_lock' = c
    /\ req' = [req EXCEPT ![c].pc = "upload_insert"]
    /\ resp' = NoResponse
    /\ unlocked' = {}
    /\ UNCHANGED <<jobs, nextId, uploadDir, wk, issued>>

\* upload_audio: jobs[job_id] = {...}, and the lock is released
UploadInsert(c) ==
    /\ UNCHANGED notUpload
    /\ req[c].pc = "upload_insert"
    /\ LET safe_name == secure_filename(req[c].file.filename)
       IN jobs' = InsertJob(req[c].id,
                     NewJob(safe_name, build_output_filename(safe_name)))
    /\ Access(c, "upload_audio")
    /\ jobs_lock' = "free"
    /\ req' = [req EXCEPT ![c].pc = "upload_spawn"]
    /\ resp' = NoResponse
    /\ UNCHANGED <<nextId, uploadDir, wk, issued>>

\* upload_audio: threading.Thread(target=transcode_audio, ...).start()
UploadSpawn(c) ==
    /\ UNCHANGED notUpload
    /\ req[c].pc = "upload_spawn"
    /\ wk' = [id \in DOMAIN wk \cup {req[c].id} |->
                 IF id = req[c].id THEN "set_processing" ELSE wk[id]]
    /\ req' = [req EXCEPT ![c].pc = "upload_respond"]
    /\ resp' = NoResponse
    /\ unlocked' = {}
    /\ UNCHANGED <<jobs, jobs_lock, nextId, uploadDir, issued>>

\* upload_audio: the response carries the job id
UploadRespond(c) ==
    /\ UNCHANGED notUpload
    /\ req[c].pc = "upload_respond"
    /\ issued' = issued \cup {req[c].id}
    /\ Respond(c, [NoResponse EXCEPT !.kind = "upload", !.code = 200,
                                    !.file = req[c].file, !.id = req[c].id])
    /\ unlocked' = {}
    /\ UNCHANGED <<jobs, jobs_lock, nextId, uploadDir, wk>>

\* ---- GET /api/jobs/<job_id> and GET /api/download/<job_id>

\* a client asks for the status or the output of a job id
Get(c) ==
    /\ UNCHANGED notUpload
    /\ req[c].pc = "idle"
    /\ \E kind \in {"status", "download"}, id \in ProbeIds :
          req' = [req EXCEPT ![c] =
                [Idle EXCEPT !.pc = "get_lock", !.kind = kind, !.id = id,
                             !.known = (id \in issued)]]
    /\ resp' = NoResponse
    /\ unlocked' = {}
    /\ UNCHANGED <<jobs, jobs_lock, nextId, uploadDir, wk, issued>>

\* job_status, download_output: with jobs_lock (entry)
GetLock(c) ==
    /\ UNCHANGED notUpload
    /\ req[c].pc = "get_lock"
    /\ jobs_lock = "free"
    /\ jobs_lock' = c
    /\ req' = [req EXCEPT ![c].pc = "get_job"]
    /\ resp' = NoResponse
    /\ unlocked' = {}
    /\ UNCHANGED <<jobs, nextId, uploadDir, wk, issued>>

\* with jobs_lock: job = jobs.get(job_id), and the lock is released
GetLookup(c) ==
    /\ UNCHANGED notUpload
    /\ req[c].pc = "get_job"
    /\ jobs_lock' = "free"
    /\ req' = [req EXCEPT ![c].job = GetJob(req[c].id), ![c].pc = "get_check"]
    /\ resp' = NoResponse
    /\ unlocked' = {}
    /\ UNCHANGED <<jobs, nextId, uploadDir, wk, issued>>

Answer(c, code) ==
    [NoResponse EXCEPT !.kind = req[c].kind, !.code = code, !.id = req[c].id,
                       !.known = req[c].known]

\* job_status: "if not job" answers 404
StatusNotFound(c) ==
    /\ UNCHANGED notUpload
    /\ req[c].pc = "get_check"
    /\ req[c].kind = "status"
    /\ req[c].job = NoJob
    /\ Respond(c, Answer(c, 404))
    /\ unlocked' = {}
    /\ UNCHANGED <<jobs, jobs_lock, nextId, uploadDir, wk, issued>>

\* job_status: the response dictionary starts with job["status"]
StatusReadStatus(c) ==
    /\ UNCHANGED notUpload
    /\ req[c].pc = "get_check"
    /\ req[c].kind = "status"
    /\ req[c].job # NoJob
    /\ Access(c, "job_status")
    /\ req' = [req EXCEPT ![c].status = jobs[req[c].job].status,
                          ![c].pc = "status_rest"]
    /\ resp' = NoResponse
    /\ UNCHANGED <<jobs, jobs_lock, nextId, uploadDir, wk, issued>>

\* job_status: the other fields are read and the response is returned
StatusRespond(c) ==
    /\ UNCHANGED notUpload
    /\ req[c].pc = "status_rest"
    /\ Access(c, "job_status")
    /\ Respond(c, [Answer(c, 200) EXCEPT
                      !.status = req[c].status,
                      !.completed = jobs[req[c].job].completed_at])
    /\ UNCHANGED <<jobs, jobs_lock, nextId, uploadDir, wk, issued>>

\* download_output: no job, abort(404)
DownloadNotFound(c) ==
    /\ UNCHANGED notUpload
    /\ req[c].pc = "get_check"
    /\ req[c].kind = "download"
    /\ req[c].job = NoJob
    /\ Respond(c, Answer(c, 404))
    /\ unlocked' = {}
    /\ UNCHANGED <<jobs, jobs_lock, nextId, uploadDir, wk, issued>>

\* download_output: job["status"] and job.get("output_path") decide between
\* abort(404) and send_file; the output file may have been removed since
DownloadRespond(c) ==
    /\ UNCHANGED notUpload
    /\ req[c].pc = "get_check"
    /\ req[c].kind = "download"
    /\ req[c].job # NoJob
    /\ Access(c, "download_output")
    /\ LET job == jobs[req[c].job]
       IN IF job.status # "done" \/ ~job.output_path
          THEN Respond(c, Answer(c, 404))
          ELSE \E there \in BOOLEAN :
                 Respond(c, [Answer(c, IF there THEN 200 ELSE 404)
                                EXCEPT !.status = job.status])
    /\ UNCHANGED <<jobs, jobs_lock, nextId, uploadDir, wk, issued>>

\* ---- the worker thread: transcode_audio

\* set_job: with jobs_lock (entry)
WorkerLock(id) ==
    /\ UNCHANGED notUpload
    /\ id \in DOMAIN wk
    /\ wk[id] \in {"set_processing", "set_done", "set_error"}
    /\ jobs_lock = "free"
    /\ jobs_lock' = Worker(id)
    /\ wk' = [wk EXCEPT ![id] =
                CASE wk[id] = "set_processing" -> "upd_processing"
                  [] wk[id] = "set_done" -> "upd_done"
                  [] wk[id] = "set_error" -> "upd_error"]
    /\ resp' = NoResponse
    /\ unlocked' = {}
    /\ UNCHANGED <<jobs, nextId, uploadDir, req, issued>>

\* mutant of set_job: the record is dropped instead of updated
set_job_discarding(id, updates) ==
    /\ jobs' = [k \in DOMAIN jobs \ {id} |-> jobs[k]]
    /\ Access(Worker(id), "set_job")
    /\ jobs_lock' = "free"

\* set_job: if job_id in jobs: jobs[job_id].update(updates), lock released
set_job(id, updates) ==
    /\ jobs' = IF id \in DOMAIN jobs
               THEN [jobs EXCEPT ![id] =
                       [f \in DOMAIN jobs[id] |->
                           IF f \in DOMAIN updates THEN updates[f]
                           ELSE jobs[id][f]]]
               ELSE jobs
    /\ Access(Worker(id), "set_job")
    /\ jobs_lock' = "free"

\* transcode_audio: set_job(job_id, status="processing")
WorkerProcessing(id) ==
    /\ UNCHANGED notUpload
    /\ id \in DOMAIN wk
    /\ wk[id] = "upd_processing"
    /\ set_job(id, [status |-> "processing"])
    /\ wk' = [wk EXCEPT ![id] = "ffmpeg"]
    /\ resp' = NoResponse
    /\ UNCHANGED <<nextId, uploadDir, req, issued>>

\* transcode_audio: ffmpeg (and the git push) run; ffmpeg missing or failing
\* leads to the error branch
WorkerRun(id) ==
    /\ UNCHANGED notUpload
    /\ id \in DOMAIN wk
    /\ wk[id] = "ffmpeg"
    /\ \E ok \in BOOLEAN :
          wk' = [wk EXCEPT ![id] = IF ok THEN "set_done" ELSE "set_error"]
    /\ resp' = NoResponse
    /\ unlocked' = {}
    /\ UNCHANGED <<jobs, jobs_lock, nextId, uploadDir, req, issued>>

\* transcode_audio: set_job(job_id, status="done", output_path=..., ...)
WorkerDone(id) ==
    /\ UNCHANGED notUpload
    /\ id \in DOMAIN wk
    /\ wk[id] = "upd_done"
    /\ set_job(id, [status |-> "done", output_path |-> TRUE,
                    completed_at |-> TRUE])
    /\ wk' = [wk EXCEPT ![id] = "finished"]
    /\ resp' = NoResponse
    /\ UNCHANGED <<nextId, uploadDir, req, issued>>

\* transcode_audio: set_job(job_id, status="error", error=...)
WorkerError(id) ==
    /\ UNCHANGED notUpload
    /\ id \in DOMAIN wk
    /\ wk[id] = "upd_error"
    /\ set_job(id, [status |-> "error"])
    /\ wk' = [wk EXCEPT ![id] = "finished"]
    /\ resp' = NoResponse
    /\ UNCHANGED <<nextId, uploadDir, req, issued>>

UNext ==
    \/ \E c \in Clients :
          \/ UploadReject(c) \/ UploadSave(c) \/ UploadSaveFails(c)
          \/ UploadLock(c) \/ UploadInsert(c) \/ UploadSpawn(c)
          \/ UploadRespond(c)
          \/ Get(c) \/ GetLock(c) \/ GetLookup(c)
          \/ StatusNotFound(c) \/ StatusReadStatus(c) \/ StatusRespond(c)
          \/ DownloadNotFound(c) \/ DownloadRespond(c)
    \/ \E id \in JobIds :
          \/ WorkerLock(id) \/ WorkerProcessing(id) \/ WorkerRun(id)
          \/ WorkerDone(id) \/ WorkerError(id)

\* the uploader before it is started
UIdle ==
    /\ jobs = << >>
    /\ jobs_lock = "free"
    /\ nextId = 0
    /\ uploadDir = {}
    /\ req = [c \in Clients |-> Idle]
    /\ resp = NoResponse
    /\ wk = [id \in {} |-> "none"]
    /\ issued = {}
    /\ unlocked = {}

-----------------------------------------------------------------------------
(* app.py, served next to voice_uploader/app.py                            *)

\* the views app.py registers with @app.get
app_routes == { <<"GET", "/health">>, <<"GET", "/">> }

\* app.py with an upload view registered as well
app_status_with_upload(method, path) ==
    IF <<method, path>> \in app_routes \cup {<<"POST", "/api/upload">>}
    THEN 200 ELSE 404

\* the status app.py answers a request with: its views return 200, and a path
\* no view is registered for is answered 404
app_status(method, path) ==
    IF <<method, path>> \in app_routes THEN 200 ELSE 404

\* the file a client posts to app.py
AppUploadFile ==
    Upload(<<"0", "2", "-", "1", "0", ".", "q", "t", "a">>)

\* GET /health
health(c) ==
    /\ UNCHANGED notUpload
    /\ req[c].pc = "idle"
    /\ Respond(c, [NoResponse EXCEPT !.kind = "app_health",
                      !.code = app_status("GET", "/health")])
    /\ unlocked' = {}
    /\ UNCHANGED <<jobs, jobs_lock, nextId, uploadDir, wk, issued>>

\* GET /
index(c) ==
    /\ UNCHANGED notUpload
    /\ req[c].pc = "idle"
    /\ Respond(c, [NoResponse EXCEPT !.kind = "app_index",
                      !.code = app_status("GET", "/")])
    /\ unlocked' = {}
    /\ UNCHANGED <<jobs, jobs_lock, nextId, uploadDir, wk, issued>>

\* POST /api/upload with a file: app.py has no view for it
AppUpload(c) ==
    /\ UNCHANGED notUpload
    /\ req[c].pc = "idle"
    /\ Respond(c, [NoResponse EXCEPT !.kind = "app_upload",
                      !.code = app_status("POST", "/api/upload"),
                      !.file = AppUploadFile])
    /\ unlocked' = {}
    /\ UNCHANGED <<jobs, jobs_lock, nextId, uploadDir, wk, issued>>

\* the two front-ends side by side
FrontEndsNext ==
    \/ \E c \in Clients :
          \/ health(c) \/ index(c) \/ AppUpload(c)
          \/ UploadReject(c) \/ UploadSave(c) \/ UploadSaveFails(c)
          \/ UploadLock(c) \/ UploadInsert(c) \/ UploadSpawn(c)
          \/ UploadRespond(c)
          \/ Get(c) \/ GetLock(c) \/ GetLookup(c)
          \/ StatusNotFound(c) \/ StatusReadStatus(c) \/ StatusRespond(c)
          \/ DownloadNotFound(c) \/ DownloadRespond(c)
    \/ \E id \in JobIds :
          \/ WorkerLock(id) \/ WorkerProcessing(id) \/ WorkerRun(id)
          \/ WorkerDone(id) \/ WorkerError(id)

-----------------------------------------------------------------------------
(* pelican-plugins/video_embed/video_embed.py and                          *)
(* pelican-plugins/feed_processor/feed_processor.py                        *)

\* HTML is a sequence of tokens: a tag with the one attribute value the
\* plugins look at, a run of whitespace, or a run of other text
Tok(t, a) == [t |-> t, a |-> a]
P_OPEN == Tok("p_open", <<>>)
P_CLOSE == Tok("p_close", <<>>)
WS == Tok("ws", <<>>)
TEXT == Tok("text", <<>>)
FIGURE_CLOSE == Tok("figure_close", <<>>)
VIDEO_CLOSE == Tok("video_close", <<>>)
Marker(name) == Tok("marker", name)

S_embedded_video ==
    <<"e", "m", "b", "e", "d", "d", "e", "d", "-", "v", "i", "d", "e", "o">>

\* the values of VIDEO_EMBED_CLASS: the default, one that holds the default
\* among other classes, the default in another case, and one without it
ClassUniverse ==
    { S_embedded_video,
      <<"w", " ">> \o S_embedded_video,
      <<"E", "m", "b", "e", "d", "d", "e", "d", "-", "V", "i", "d", "e", "o">>,
      S_video }

N_a == <<"a">>
N_b == <<"b", ".", "1">>

\* build_video_html: siteurl and relative are parameters the body never uses
build_video_html(name, site, relative, cls) ==
    LET base == SL \o S_media \o SL \o S_video \o SL \o name
    IN << Tok("figure_open", cls), WS,
          Tok("video_open", base \o <<".", "j", "p", "g">>), WS,
          Tok("source", base \o <<".", "m", "p", "4">>), TEXT,
          VIDEO_CLOSE, WS, FIGURE_CLOSE >>

\* the index of the first token from i on that is not whitespace
RECURSIVE SkipWs(_, _)
SkipWs(toks, i) ==
    IF i <= Len(toks) /\ toks[i].t = "ws" THEN SkipWs(toks, i + 1) ELSE i

IsTok(toks, i, t) == i <= Len(toks) /\ toks[i].t = t

\* VIDEO_PATTERN with its <p> prefix matches at i: the index of the closing
\* </p>, 0 when it does not match
PrefixedMarkerEnd(toks, i) ==
    LET m == SkipWs(toks, i + 1)
        e == SkipWs(toks, m + 1)
    IN IF IsTok(toks, i, "p_open") /\ IsTok(toks, m, "marker")
          /\ IsTok(toks, e, "p_close")
       THEN e ELSE 0

\* VIDEO_PATTERN.sub(_repl, text), from token i on
RECURSIVE ReplaceMarkersFrom(_, _, _)
ReplaceMarkersFrom(toks, i, cls) ==
    IF i > Len(toks) THEN <<>>
    ELSE IF PrefixedMarkerEnd(toks, i) # 0
    THEN build_video_html(toks[SkipWs(toks, i + 1)].a, <<>>, TRUE, cls)
            \o ReplaceMarkersFrom(toks, PrefixedMarkerEnd(toks, i) + 1, cls)
    ELSE IF toks[i].t = "marker"
    THEN build_video_html(toks[i].a, <<>>, TRUE, cls)
            \o ReplaceMarkersFrom(toks, SkipWs(toks, i + 1), cls)
    ELSE <<toks[i]>> \o ReplaceMarkersFrom(toks, i + 1, cls)

replace_markers_in_text(text, cls) == ReplaceMarkersFrom(text, 1, cls)

\* <figure\s[^>]*class="[^"]*embedded-video[^"]*"[^>]*>, ignoring case
IsVideoFigureOpen(tok) ==
    /\ tok.t = "figure_open"
    /\ Contains(Lower(tok.a), S_embedded_video)

\* the <video ... poster="..."> and </video> tokens at which the feed pattern
\* that starts at i can match: .*? up to a video tag with a poster, .*? up to
\* a </video> that only whitespace separates from </figure>
FigureMatches(toks, i) ==
    { jk \in (1..Len(toks)) \X (1..Len(toks)) :
        /\ i < jk[1] /\ jk[1] < jk[2]
        /\ toks[jk[1]].t = "video_open" /\ toks[jk[1]].a # <<>>
        /\ toks[jk[2]].t = "video_close"
        /\ IsTok(toks, SkipWs(toks, jk[2] + 1), "figure_close") }

\* the match the lazy quantifiers pick: the first poster, then the first end
FigureMatch(toks, i) ==
    CHOOSE jk \in FigureMatches(toks, i) :
        \A o \in FigureMatches(toks, i) :
            jk[1] < o[1] \/ (jk[1] = o[1] /\ jk[2] <= o[2])

\* _FEED_VIDEO_PATTERN.sub(_repl, content), from token i on
RECURSIVE SubVideoFigures(_, _)
SubVideoFigures(toks, i) ==
    IF i > Len(toks) THEN <<>>
    ELSE IF IsVideoFigureOpen(toks[i]) /\ FigureMatches(toks, i) # {}
    THEN LET jk == FigureMatch(toks, i)
         IN << Tok("figure_plain", <<>>), Tok("img", toks[jk[1]].a),
               FIGURE_CLOSE >>
               \o SubVideoFigures(toks, SkipWs(toks, jk[2] + 1) + 1)
    ELSE <<toks[i]>> \o SubVideoFigures(toks, i + 1)

\* video_embed._make_feed_safe
make_feed_safe(c) == SubVideoFigures(c, 1)

\* feed_processor._make_feed_safe
feed_processor_make_feed_safe(c) == SubVideoFigures(c, 1)

\* the article contents the reader may produce
ContentUniverse ==
    { <<P_OPEN, Marker(N_a), P_CLOSE>>,
      <<P_OPEN, WS, Marker(N_b), WS, P_CLOSE>>,
      <<P_OPEN, TEXT, WS, Marker(N_a), WS, TEXT, P_CLOSE>>,
      <<P_OPEN, Marker(N_a), P_CLOSE, WS, P_OPEN, Marker(N_b), P_CLOSE>>,
      <<P_OPEN, TEXT, P_CLOSE>> }

SummaryUniverse == { <<>>, <<P_OPEN, Marker(N_a), P_CLOSE>> }

\* the values of SITEURL: '' and 'https://e.rip'
S_site == <<"h", "t", "t", "p", "s", ":", "/", "/", "e", ".", "r", "i", "p">>
SiteUniverse == { <<>>, S_site }

\* PLUGINS, in registration order: each register() patches the Writer
PluginConfigs ==
    { <<"video_embed">>, <<"feed_processor">>,
      <<"video_embed", "feed_processor">>,
      <<"feed_processor", "video_embed">> }

Registered(plugin) == \E k \in 1..Len(plugins) : plugins[k] = plugin

NoContent == <<Tok("none", <<>>)>>

\* item.get_content(siteurl): the wrappers set on the instance, outermost
\* first, around the class's method, which returns the stored content
RECURSIVE GetContent(_, _)
GetContent(wrappers, stored) ==
    IF wrappers = <<>> THEN stored
    ELSE IF Head(wrappers) = "video_embed"
    THEN make_feed_safe(GetContent(Tail(wrappers), stored))
    ELSE feed_processor_make_feed_safe(GetContent(Tail(wrappers), stored))

\* item.get_content = _feed_get_content, which calls the get_content it found
SetGetContent(wrappers, plugin) == <<plugin>> \o wrappers

\* mutant of DelGetContent: the wrapper stays on the instance
KeepGetContent(wrappers) == wrappers

\* del item.get_content: the instance attribute goes and the class's method
\* shows again; without an instance attribute AttributeError is caught
DelGetContent(wrappers) == IF wrappers = <<>> THEN <<>> ELSE <<>>

FInit ==
    /\ fpc = "read"
    /\ plugins \in PluginConfigs
    /\ css_class \in ClassUniverse
    /\ source \in ContentUniverse
    /\ content = source
    /\ summary \in SummaryUniverse
    /\ slot = <<>>
    /\ depth = 0
    /\ exc = FALSE
    /\ feed = NoContent
    /\ page = NoContent
    /\ listed \in BOOLEAN
    /\ relative_urls \in BOOLEAN
    /\ siteurl \in SiteUniverse

\* signals.content_object_init: replace_markers, when video_embed registered
ContentObjectInit ==
    /\ UNCHANGED notFeed
    /\ fpc = "read"
    /\ fpc' = "generated"
    /\ content' = IF Registered("video_embed") /\ content # <<>>
                  THEN replace_markers_in_text(content, css_class)
                  ELSE content
    /\ UNCHANGED <<plugins, css_class, source, summary, slot, depth, exc, feed,
                   page,
                   listed, relative_urls, siteurl>>

\* signals.all_generators_finalized: replace_markers_late, which goes through
\* the instances of each generator's articles and pages
AllGeneratorsFinalized ==
    /\ UNCHANGED notFeed
    /\ fpc = "generated"
    /\ fpc' = "ready"
    /\ content' = IF Registered("video_embed") /\ listed /\ content # <<>>
                  THEN replace_markers_in_text(content, css_class)
                  ELSE content
    /\ summary' = IF Registered("video_embed") /\ listed /\ summary # <<>>
                  THEN replace_markers_in_text(summary, css_class)
                  ELSE summary
    /\ UNCHANGED <<plugins, css_class, source, slot, depth, exc, feed, page,
                   listed, relative_urls, siteurl>>

\* _patched, up to its call of original: the plugin registered last runs first
EnterPatched ==
    /\ UNCHANGED notFeed
    /\ \/ fpc = "ready" /\ depth = 0
       \/ fpc = "feed"
    /\ depth < Len(plugins)
    /\ slot' = SetGetContent(slot, plugins[Len(plugins) - depth])
    /\ depth' = depth + 1
    /\ fpc' = "feed"
    /\ exc' = FALSE
    /\ UNCHANGED <<plugins, css_class, source, content, summary, feed, page,
                   listed, relative_urls, siteurl>>

\* Pelican's own _add_item_to_the_feed: it calls item.get_content(siteurl) and
\* returns, or raises before or after that call
AddItemToTheFeed ==
    /\ UNCHANGED notFeed
    /\ fpc = "feed"
    /\ depth = Len(plugins)
    /\ \E outcome \in {"returns", "raises_before", "raises_after"} :
          /\ feed' = IF outcome = "raises_before" THEN feed
                     ELSE GetContent(slot, content)
          /\ exc' = (outcome # "returns")
    /\ fpc' = "unwind"
    /\ UNCHANGED <<plugins, css_class, source, content, summary, slot, depth,
                   page,
                   listed, relative_urls, siteurl>>

\* _patched, its finally clause
ExitPatched ==
    /\ UNCHANGED notFeed
    /\ fpc = "unwind"
    /\ depth > 0
    /\ slot' = DelGetContent(slot)
    /\ depth' = depth - 1
    /\ fpc' = IF depth > 1 THEN "unwind" ELSE IF exc THEN "failed" ELSE "ready"
    /\ UNCHANGED <<plugins, css_class, source, content, summary, exc, feed,
                   page,
                   listed, relative_urls, siteurl>>

\* the article's page is rendered: the template reads article.content, which
\* calls self.get_content
RenderPage ==
    /\ UNCHANGED notFeed
    /\ fpc = "ready"
    /\ page' = GetContent(slot, content)
    /\ UNCHANGED <<fpc, plugins, css_class, source, content, summary, slot,
                   depth, exc, feed, listed, relative_urls, siteurl>>

FNext ==
    \/ ContentObjectInit \/ AllGeneratorsFinalized
    \/ EnterPatched \/ AddItemToTheFeed \/ ExitPatched
    \/ RenderPage

\* the site generator before it is started
FIdle ==
    /\ fpc = "idle"
    /\ plugins = <<>>
    /\ css_class = <<>>
    /\ source = <<>>
    /\ content = <<>>
    /\ summary = <<>>
    /\ slot = <<>>
    /\ depth = 0
    /\ exc = FALSE
    /\ feed = NoContent
    /\ page = NoContent
    /\ listed = FALSE
    /\ relative_urls = FALSE
    /\ siteurl = <<>>

-----------------------------------------------------------------------------
(* pelican-plugins/carousel_embed/carousel_embed.py                        *)

MaxEntries == 2

\* the entries a marker is written with, before they are joined with ";"
EntryUniverse ==
    { <<"m", "e", "d", "i", "a", "/", "a", " ", "(", "1", ")", ".", "j", "p", "g", "|", "C", "a", "t">>,
      <<" ", "i", "m", "a", "g", "e", "s", "/", "b", ".", "j", "p", "g">>,
      <<"p", "h", "o", "t", "o", "s", "/", "c", ".", "j", "p", "g", "|", "D", "o", "g">>,
      <<"d", ".", "j", "p", "g">>,
      <<"/", "a", "b", "s", "/", "e", ".", "j", "p", "g">>,
      <<"h", "t", "t", "p", "s", ":", "/", "/", "x", "/", "f", ".", "j", "p", "g">>,
      <<"/", "/", "c", "d", "n", "/", "g", ".", "j", "p", "g">>,
      <<"L", "a", "b", "e", "l", "=", " ", "S", "e", "t">>,
      <<" ">>,
      <<" ", "|", "C", "a", "t">> }

RECURSIVE JoinWith(_, _)
JoinWith(parts, sep) ==
    IF parts = <<>> THEN <<>>
    ELSE IF Len(parts) = 1 THEN parts[1]
    ELSE parts[1] \o sep \o JoinWith(Tail(parts), sep)

RECURSIVE SeqsUpTo(_, _)
SeqsUpTo(S, n) ==
    IF n = 0 THEN { <<>> }
    ELSE SeqsUpTo(S, n - 1)
            \cup { <<e>> \o q : e \in S, q \in { r \in SeqsUpTo(S, n - 1) : Len(r) = n - 1 } }

SpecUniverse == { JoinWith(es, <<";">>) : es \in SeqsUpTo(EntryUniverse, MaxEntries) }

\* str.split(sep) for a one-character sep
RECURSIVE SplitOnFrom(_, _, _, _)
SplitOnFrom(str, sep, i, seg) ==
    IF i > Len(str) THEN <<seg>>
    ELSE IF str[i] = sep THEN <<seg>> \o SplitOnFrom(str, sep, i + 1, <<>>)
    ELSE SplitOnFrom(str, sep, i + 1, Append(seg, str[i]))

SplitOn(str, sep) == SplitOnFrom(str, sep, 1, <<>>)

\* the index of the first sep in str, 0 when there is none
Find(str, sep) ==
    IF \E i \in 1..Len(str) : str[i] = sep
    THEN CHOOSE i \in 1..Len(str) : str[i] = sep /\ \A k \in 1..(i-1) : str[k] # sep
    ELSE 0

IsSpace(c) == c \in {" ", "\n"}

RECURSIVE LStrip(_)
LStrip(str) == IF str # <<>> /\ IsSpace(Head(str)) THEN LStrip(Tail(str)) ELSE str

RECURSIVE RStrip(_)
RStrip(str) ==
    IF str # <<>> /\ IsSpace(str[Len(str)])
    THEN RStrip(SubSeq(str, 1, Len(str) - 1)) ELSE str

\* str.strip()
Strip(str) == RStrip(LStrip(str))

\* urllib.parse.quote(path, safe='/:%') on one character
QuoteChar(c) ==
    CASE c = " " -> <<"%", "2", "0">>
      [] c = "(" -> <<"%", "2", "8">>
      [] c = ")" -> <<"%", "2", "9">>
      [] OTHER -> <<c>>

RECURSIVE Quote(_)
Quote(str) == IF str = <<>> THEN <<>> ELSE QuoteChar(Head(str)) \o Quote(Tail(str))

S_http_pre == <<"h", "t", "t", "p", ":", "/", "/">>
S_https_pre == <<"h", "t", "t", "p", "s", ":", "/", "/">>
S_media_pre == <<"m", "e", "d", "i", "a", "/">>
S_images_pre == <<"i", "m", "a", "g", "e", "s", "/">>
S_slash_media == <<"/", "m", "e", "d", "i", "a", "/">>

\* path.startswith(('http://', 'https://', '//'))
IsRemote(path) ==
    \/ StartsWith(path, S_http_pre)
    \/ StartsWith(path, S_https_pre)
    \/ StartsWith(path, <<"/", "/">>)

\* _normalise_path
normalise_path(raw_path) ==
    LET path == Strip(raw_path)
    IN IF path = <<>> THEN <<>>
       ELSE IF IsRemote(path) THEN path
       ELSE IF StartsWith(path, SL) THEN Quote(path)
       ELSE IF StartsWith(path, S_media_pre)
       THEN Quote(IF ~StartsWith(path, S_slash_media)
                  THEN S_slash_media
                          \o SubSeq(path, Len(S_media_pre) + 1, Len(path))
                  ELSE path)
       ELSE IF StartsWith(path, S_images_pre)
       THEN Quote(S_slash_media \o path)
       ELSE Quote(IF StartsWith(path, SL) THEN path ELSE SL \o path)

\* entry.split('|', 1): the path part and the caption part
PathPart(entry) ==
    IF Find(entry, "|") = 0 THEN entry
    ELSE SubSeq(entry, 1, Find(entry, "|") - 1)

CaptionPart(entry) ==
    IF Find(entry, "|") = 0 THEN <<>>
    ELSE SubSeq(entry, Find(entry, "|") + 1, Len(entry))

S_label_eq == <<"l", "a", "b", "e", "l", "=">>
S_default_label == <<"I", "m", "a", "g", "e", " ", "c", "a", "r", "o", "u", "s", "e", "l">>

CInit ==
    /\ cpc = "marker"
    /\ spec \in SpecUniverse
    /\ entries = <<>>
    /\ label = <<>>
    /\ items = <<>>
    /\ imgs = <<>>

\* _parse_spec: label = 'Image carousel', items = [], spec.split(';')
ParseSpec ==
    /\ UNCHANGED notCarousel
    /\ cpc = "marker"
    /\ cpc' = "parse"
    /\ entries' = SplitOn(spec, ";")
    /\ label' = S_default_label
    /\ UNCHANGED <<spec, items, imgs>>

Entry == Strip(Head(entries))

\* _parse_spec: an entry that is empty once stripped is skipped
SkipEmptyEntry ==
    /\ UNCHANGED notCarousel
    /\ cpc = "parse"
    /\ entries # <<>>
    /\ Entry = <<>>
    /\ entries' = Tail(entries)
    /\ UNCHANGED <<cpc, spec, label, items, imgs>>

\* _parse_spec: a label= entry sets the label unless its value is empty
LabelEntry ==
    /\ UNCHANGED notCarousel
    /\ cpc = "parse"
    /\ entries # <<>>
    /\ Entry # <<>>
    /\ StartsWith(Lower(Entry), S_label_eq)
    /\ LET value == Strip(SubSeq(Entry, Find(Entry, "=") + 1, Len(Entry)))
       IN label' = IF value = <<>> THEN label ELSE value
    /\ entries' = Tail(entries)
    /\ UNCHANGED <<cpc, spec, items, imgs>>

\* _parse_spec: an entry whose normalised path is empty is dropped
DropEntry ==
    /\ UNCHANGED notCarousel
    /\ cpc = "parse"
    /\ entries # <<>>
    /\ Entry # <<>>
    /\ ~StartsWith(Lower(Entry), S_label_eq)
    /\ normalise_path(PathPart(Entry)) = <<>>
    /\ entries' = Tail(entries)
    /\ UNCHANGED <<cpc, spec, label, items, imgs>>

\* _parse_spec: the entry becomes a CarouselItem; _probe_dimensions finds the
\* image's size or not, and never for a remote path
ItemEntry ==
    /\ UNCHANGED notCarousel
    /\ cpc = "parse"
    /\ entries # <<>>
    /\ Entry # <<>>
    /\ ~StartsWith(Lower(Entry), S_label_eq)
    /\ normalise_path(PathPart(Entry)) # <<>>
    /\ \E sized \in BOOLEAN :
          /\ sized => ~IsRemote(Strip(PathPart(Entry)))
          /\ items' = Append(items,
                [raw |-> PathPart(Entry),
                 src |-> normalise_path(PathPart(Entry)),
                 caption |-> Strip(CaptionPart(Entry)),
                 sized |-> sized])
    /\ entries' = Tail(entries)
    /\ UNCHANGED <<cpc, spec, label, imgs>>

\* _repl: without items the marker is replaced by ''
EmptyCarousel ==
    /\ UNCHANGED notCarousel
    /\ cpc = "parse"
    /\ entries = <<>>
    /\ items = <<>>
    /\ cpc' = "done"
    /\ imgs' = <<>>
    /\ UNCHANGED <<spec, entries, label, items>>

\* _build_html: one <img src="{item.src}"> per item
BuildHtml ==
    /\ UNCHANGED notCarousel
    /\ cpc = "parse"
    /\ entries = <<>>
    /\ items # <<>>
    /\ cpc' = "done"
    /\ imgs' = [i \in 1..Len(items) |-> items[i].src]
    /\ UNCHANGED <<spec, entries, label, items>>

CNext ==
    \/ ParseSpec \/ SkipEmptyEntry \/ LabelEntry \/ DropEntry \/ ItemEntry
    \/ EmptyCarousel \/ BuildHtml

\* the carousel plugin before it is given a marker
CIdle ==
    /\ cpc = "idle"
    /\ spec = <<>>
    /\ entries = <<>>
    /\ label = <<>>
    /\ items = <<>>
    /\ imgs = <<>>

-----------------------------------------------------------------------------
(* The specifications                                                      *)

InitTranscode == TInit /\ VIdle /\ UIdle /\ FIdle /\ CIdle

SpecTranscode == InitTranscode /\ [][TNext]_vars

InitValidate == VInit /\ TIdle /\ UIdle /\ FIdle /\ CIdle

SpecValidate == InitValidate /\ [][VNext]_vars

InitUpload == UInit /\ TIdle /\ VIdle /\ FIdle /\ CIdle

SpecUpload == InitUpload /\ [][UNext]_vars

InitFrontEnds == UInit /\ TIdle /\ VIdle /\ FIdle /\ CIdle

SpecFrontEnds == InitFrontEnds /\ [][FrontEndsNext]_vars

InitFeed == FInit /\ TIdle /\ VIdle /\ UIdle /\ CIdle

SpecFeed == InitFeed /\ [][FNext]_vars

InitCarousel == CInit /\ TIdle /\ VIdle /\ UIdle /\ FIdle

SpecCarousel == InitCarousel /\ [][CNext]_vars

-----------------------------------------------------------------------------
(* Claims about transcode_videos.py                                        *)

Range(s) == {s[i] : i \in 1..Len(s)}

\* the outputs encoded for the current source
RanOutputs == {r.out : r \in ran}

\* C1 (amended): without --force no encode command is run for an output that
\* exists (so none at all for a video whose three outputs exist); with --force
\* every output in the encode list of a source that transcode_file finished
\* is encoded even if it exists, while a HEIC/HEIF source whose conversion is
\* unavailable is skipped without any encode.
C1_SkipExistingUnlessForced ==
    /\ ~force => \A r \in ran : ~r.existed
    /\ (force /\ result = "done") =>
          encodes # <<>> /\ Range(encodes) \subseteq RanOutputs
    /\ result = "heic_skip" => ran = {}

\* C1 witness: a forced run has re-encoded an output that existed
C1_Witness ==
    force /\ result = "done" /\ \E r \in ran : r.existed

\* C1, the other case: an unforced run skipped an existing output of a source
\* and encoded a missing one
C1_WitnessSkip ==
    /\ ~force /\ result = "done" /\ ran # {}
    /\ \E o \in Range(encodes) : o \notin RanOutputs

\* C1 as stated: with --force every output of every source that transcode_file
\* returned from ("[DONE]") is encoded.
C1_Original ==
    /\ ~force => \A r \in ran : ~r.existed
    /\ (force /\ result \in {"done", "heic_skip"}) =>
          Range(IF is_video_file(cur) THEN VideoEncodes(cur)
                ELSE ImageEncodes(cur, FALSE)) \subseteq RanOutputs

\* C2 as stated: main exits 1 when a tool is missing, 2 when an unexpected
\* error occurred while a source was processed, and 0 otherwise.
C2_ExitCodes ==
    tpc = "exit" =>
       /\ toolMissing => exitCode = 1
       /\ raised => exitCode = 2
       /\ (~toolMissing /\ ~raised /\ result # "interrupted") => exitCode = 0

\* C2: a source raised and main has exited
C2_RaisedAndExited == tpc = "exit" /\ raised

-----------------------------------------------------------------------------
(* Claims about validate_output.py                                         *)

\* validate_internal_references has run (returned or raised)
Validated == vpc \in {"external", "orphans", "exit", "crashed"} /\ outputDirExists

\* C3: the validator exits 0 exactly when the output directory exists and no
\* internal and no external error was found, and 1 otherwise; external errors
\* arise only with --check-external, and orphaned media do not count.
C3_ExitStatus ==
    /\ vpc \in {"exit", "crashed"} =>
          /\ vExit \in {0, 1}
          /\ vExit = 0 <=> /\ outputDirExists
                           /\ vpc = "exit"
                           /\ internal_errors = {}
                           /\ external_errors = {}
    /\ ~checkExternal => external_errors = {}

\* C3 witness: orphaned media were found and the validator exited 0
C3_Witness ==
    vpc = "exit" /\ vExit = 0 /\ orphaned["images"] \cup orphaned["videos"] # {}

\* C4 as stated: validate_internal_references returns normally and has
\* recorded, under its HTML file, every internal reference whose target is
\* missing.
C4_EveryBrokenReferenceReported ==
    Validated =>
       /\ vpc # "crashed"
       /\ \A h \in HtmlFiles : \A r \in BrokenRefs(h) :
             [source |-> h, kind |-> r.kind, href |-> r.href] \in internal_errors

\* C4: a broken reference that resolves outside the output directory met
C4_BrokenOutside ==
    /\ Validated
    /\ \E h \in HtmlFiles : \E r \in BrokenRefs(h) :
          ~IsPrefix(output_dir, normalize_path(r.href, h))

\* C5 as stated: after find_orphaned_media the files in its categories are
\* exactly the media files on disk that no HTML file references.
C5_OrphansExact ==
    vpc = "exit" /\ outputDirExists =>
       \A p \in all_media :
          (p \notin referenced_media) <=>
             (\E c \in DOMAIN orphaned : p \in orphaned[c])

\* C5: an unreferenced media file was found
C5_Unreferenced ==
    vpc = "exit" /\ outputDirExists /\ all_media \ referenced_media # {}

-----------------------------------------------------------------------------
(* Claims about voice_uploader/app.py                                      *)

\* C6: every read and every write of a job's record, by the request handlers
\* and by the worker threads, is made by a thread that holds jobs_lock.
C6_EveryAccessUnderLock == unlocked = {}

\* a status response that pairs a status read before the worker's final
\* set_job with a completed_at read after it
C6_TornStatus ==
    /\ resp.kind = "status"
    /\ resp.code = 200
    /\ resp.status \in {"pending", "processing"}
    /\ resp.completed

\* the upload the claim says is accepted: a file with a non-empty name whose
\* sanitized name ends in ".qta" in any case and whose stem holds a clip id
C7_Acceptable(file) ==
    /\ file.present
    /\ file.filename # <<>>
    /\ LET safe == secure_filename(file.filename)
       IN /\ EndsWith(Lower(safe), <<".", "q", "t", "a">>)
          /\ \E i \in 1..Len(Stem(safe)) : ClipIdAt(Stem(safe), i)

C7_Step ==
    /\ \A c \in Clients :
          (req[c].pc = "idle" /\ req'[c].pc = "upload_lock")
             => C7_Acceptable(req'[c].file)
    /\ resp'.kind = "upload" =>
          /\ resp'.code = 400 <=> ~C7_Acceptable(resp'.file)
          /\ resp'.code = 400 =>
                jobs' = jobs /\ uploadDir' = uploadDir /\ wk' = wk
    /\ (DOMAIN jobs' # DOMAIN jobs \/ uploadDir' # uploadDir
           \/ DOMAIN wk' # DOMAIN wk) =>
          \E c \in Clients :
             req'[c].kind = "upload" /\ C7_Acceptable(req'[c].file)

C8_Inv ==
    /\ issued \subseteq DOMAIN jobs
    /\ DOMAIN wk \subseteq DOMAIN jobs
    /\ (resp.kind = "upload" /\ resp.code = 200) => resp.id \in DOMAIN jobs
    /\ (resp.kind = "status" /\ resp.known) => resp.code # 404
    /\ (resp.kind = "status" /\ resp.id > nextId) => resp.code = 404

C8_Step ==
    /\ DOMAIN jobs \subseteq DOMAIN jobs'
    /\ \A c \in Clients :
          (req[c].pc = "upload_insert" /\ req'[c].pc # "upload_insert") =>
             /\ req[c].id \notin DOMAIN jobs
             /\ DOMAIN jobs' = DOMAIN jobs \cup {req[c].id}
    /\ DOMAIN jobs' # DOMAIN jobs =>
          \E c \in Clients :
             req[c].pc = "upload_insert" /\ req'[c].pc # "upload_insert"

-----------------------------------------------------------------------------
(* Claims about the feed patches of video_embed and feed_processor         *)

C9_Inv ==
    /\ depth = 0 => slot = <<>>
    /\ page # NoContent => page = content

C9_Step == fpc \in {"ready", "feed", "unwind"} => content' = content

\* C9: once the patched Writer._add_item_to_the_feed has returned or raised,
\* the article has no get_content of its own left, so get_content is the
\* class's method again; the call never changes the stored content; a page
\* rendered afterwards shows the stored content. This holds for one patch
\* and for the two patches nested in either order.
C9_ArticleRestored == []C9_Inv /\ [][C9_Step]_vars

\* with both patches nested, a feed entry was written with posters and the
\* page rendered afterwards still has the stored content with its video
C9_Witness ==
    /\ Len(plugins) = 2
    /\ fpc = "ready"
    /\ feed # NoContent
    /\ page = content
    /\ feed # page
    /\ slot = <<>>

\* with both patches nested, the original raised and the wrappers are gone
C9_WitnessRaised ==
    /\ Len(plugins) = 2
    /\ fpc = "failed"
    /\ slot = <<>>

RECURSIVE CountTok(_, _)
CountTok(toks, t) ==
    IF toks = <<>> THEN 0
    ELSE (IF Head(toks).t = t THEN 1 ELSE 0) + CountTok(Tail(toks), t)

\* the attribute values of the tokens of kind t, in order
AttrsOf(toks, t) ==
    LET sel == SelectSeq(toks, LAMBDA k : k.t = t)
    IN [i \in 1..Len(sel) |-> sel[i].a]

PosterOf(name) ==
    SL \o S_media \o SL \o S_video \o SL \o name \o <<".", "j", "p", "g">>

\* C10: with video_embed registered, the content a feed entry is given holds
\* no <video> element and, for each [[video:NAME]] marker of the article, one
\* <img> of /media/video/NAME.jpg, whatever VIDEO_EMBED_CLASS is.
C10_FeedHasPostersOnly ==
    (feed # NoContent /\ Registered("video_embed")) =>
        /\ CountTok(feed, "video_open") = 0
        /\ AttrsOf(feed, "img") =
              [i \in 1..Len(AttrsOf(source, "marker")) |->
                  PosterOf(AttrsOf(source, "marker")[i])]

\* a feed entry was given a <video> element under a VIDEO_EMBED_CLASS that
\* does not contain "embedded-video"
C10_VideoInFeed ==
    /\ feed # NoContent
    /\ Registered("video_embed")
    /\ css_class = S_video
    /\ CountTok(feed, "video_open") > 0

\* under a VIDEO_EMBED_CLASS that contains "embedded-video" the feed entry
\* has posters only
C10_DefaultClassOk ==
    (feed # NoContent /\ Registered("video_embed")
        /\ Contains(Lower(css_class), S_embedded_video)) =>
        /\ CountTok(feed, "video_open") = 0
        /\ AttrsOf(feed, "img") =
              [i \in 1..Len(AttrsOf(source, "marker")) |->
                  PosterOf(AttrsOf(source, "marker")[i])]

-----------------------------------------------------------------------------
(* Claims about the marker replacement of video_embed                      *)

HooksDone == fpc \in {"ready", "feed", "unwind", "failed"}

SourceOf(name) ==
    SL \o S_media \o SL \o S_video \o SL \o name \o <<".", "m", "p", "4">>

\* text holds no marker, and replacing markers in it again changes nothing
MarkerFree(text) ==
    /\ CountTok(text, "marker") = 0
    /\ replace_markers_in_text(text, css_class) = text

\* the stored content holds one figure per marker of the article's source,
\* with the marker's poster and mp4
FiguresMatchSource ==
    LET names == AttrsOf(source, "marker")
    IN /\ CountTok(content, "figure_open") = Len(names)
       /\ AttrsOf(content, "video_open") =
             [i \in 1..Len(names) |-> PosterOf(names[i])]
       /\ AttrsOf(content, "source") =
             [i \in 1..Len(names) |-> SourceOf(names[i])]

\* C11: once content_object_init and all_generators_finalized have run with
\* video_embed registered, the content and the summary of the article hold
\* no [[video:NAME]] marker, the content holds one figure per marker with
\* poster /media/video/NAME.jpg and source /media/video/NAME.mp4, and a
\* second replacement changes nothing.
C11_MarkersReplaced ==
    (HooksDone /\ Registered("video_embed")) =>
        /\ MarkerFree(content)
        /\ MarkerFree(summary)
        /\ FiguresMatchSource

\* an article outside the generators' articles and pages keeps the marker of
\* its summary after both hooks
C11_SummaryKeepsMarker ==
    /\ HooksDone
    /\ Registered("video_embed")
    /\ ~listed
    /\ CountTok(summary, "marker") > 0
    /\ MarkerFree(content)

\* for an article of a generator's articles or pages the replacement is
\* complete
C11_ListedReplaced ==
    (HooksDone /\ Registered("video_embed") /\ listed) =>
        /\ MarkerFree(content)
        /\ MarkerFree(summary)
        /\ FiguresMatchSource

\* the poster and source URLs of the figures in the stored content
MediaUrls == AttrsOf(content, "video_open") \o AttrsOf(content, "source")

\* C12: with RELATIVE_URLS False, the poster and source URLs of every figure
\* generated for a marker begin with SITEURL.
C12_SiteurlPrefixed ==
    (HooksDone /\ Registered("video_embed") /\ ~relative_urls) =>
        \A i \in 1..Len(MediaUrls) : StartsWith(MediaUrls[i], siteurl)

\* RELATIVE_URLS is False, SITEURL is set, and a generated figure has a
\* poster that starts at /media/video/
C12_Unprefixed ==
    /\ HooksDone
    /\ Registered("video_embed")
    /\ ~relative_urls
    /\ siteurl = S_site
    /\ \E i \in 1..Len(MediaUrls) :
          StartsWith(MediaUrls[i], SL \o S_media \o SL \o S_video \o SL)

-----------------------------------------------------------------------------
(* Claims about carousel_embed                                             *)

\* the path is absolute in the claim's sense: a leading "/" or an http://,
\* https:// or // prefix
IsAbsolutePath(path) == StartsWith(path, SL) \/ IsRemote(path)

\* C13: every item of a [[carousel:...]] marker whose path is not absolute
\* gets an <img src> that begins with /media/.
C13_RelativeUnderMedia ==
    /\ \A i \in 1..Len(items) :
          ~IsAbsolutePath(Strip(items[i].raw)) =>
             StartsWith(items[i].src, S_slash_media)
    /\ cpc = "done" => imgs = [i \in 1..Len(items) |-> items[i].src]

\* the generated HTML has an <img> whose path was relative and whose src is
\* outside /media/
C13_RelativeOutsideMedia ==
    /\ cpc = "done"
    /\ \E i \in 1..Len(items) :
          /\ ~IsAbsolutePath(Strip(items[i].raw))
          /\ imgs[i] = SL \o Strip(items[i].raw)
          /\ ~StartsWith(imgs[i], S_slash_media)

\* a relative path that starts with media/ or images/ does land in /media/
C13_MediaAndImagesUnderMedia ==
    \A i \in 1..Len(items) :
        LET path == Strip(items[i].raw)
        IN (StartsWith(path, S_media_pre) \/ StartsWith(path, S_images_pre))
              => StartsWith(items[i].src, S_slash_media)

-----------------------------------------------------------------------------
(* Claims about the external links of validate_output.py                   *)

\* the reference starts with http://, https:// or //
C14_StartsExternal(href) ==
    \/ IsPrefix(<<"h", "t", "t", "p", ":", "/", "/">>, href)
    \/ IsPrefix(<<"h", "t", "t", "p", "s", ":", "/", "/">>, href)
    \/ IsPrefix(<<"/", "/">>, href)

\* C14: an HTTP request is made only under --check-external and only to an
\* external link of an <a href>; without the flag there is no request and no
\* external error; no reference that starts with http://, https:// or // is
\* an internal error.
C14_ExternalOnlyOnRequest ==
    /\ requested # {} => checkExternal
    /\ requested \subseteq ExternalLinks
    /\ ~checkExternal => (requested = {} /\ external_errors = {})
    /\ \A e \in internal_errors : ~C14_StartsExternal(e.href)

\* without --check-external the validator finished with an internal error
\* reported and an external <a href> in the pages, and made no request
C14_Witness ==
    /\ vpc = "exit"
    /\ ~checkExternal
    /\ ExternalLinks # {}
    /\ requested = {}
    /\ internal_errors # {}

\* the pages hold an external <img src> next to a broken internal reference
C14_WitnessImage ==
    /\ vpc = "exit"
    /\ internal_errors # {}
    /\ \E h \in HtmlFiles : \E t \in html[h] :
          t.tag = "img" /\ C14_StartsExternal(t.url)

\* with --check-external every external link was requested
C14_WitnessRequested ==
    /\ vpc = "exit"
    /\ checkExternal
    /\ requested # {}
    /\ requested = ExternalLinks


-----------------------------------------------------------------------------
(* C15: the target outputs of a source                                      *)

\* dest/dir/<stem of cur><ext>
C15_Target(dir, ext) == [dir |-> dir, stem |-> Stem(cur.name), ext |-> ext]

C15_VideoTargets ==
    { C15_Target("video", <<".", "m", "p", "4">>),
      C15_Target("video", <<".", "w", "e", "b", "m">>),
      C15_Target("video", <<".", "j", "p", "g">>) }

C15_ImageTargets ==
    { C15_Target("images", <<".", "a", "v", "i", "f">>),
      C15_Target("images", <<".", "w", "e", "b", "p">>),
      C15_Target("images", <<".", "j", "p", "g">>) }

C15_Png == C15_Target("images", <<".", "p", "n", "g">>)

C15_PngOrWebpSource ==
    Lower(Suffix(cur.name)) \in
        { <<".", "p", "n", "g">>, <<".", "w", "e", "b", "p">> }

\* C15 as stated: a video source has exactly the targets video/name.mp4,
\* video/name.webm and video/name.jpg; an image source has exactly
\* images/name.avif, images/name.webp and images/name.jpg, and images/name.png
\* if and only if transparency was detected in it
C15_Original ==
    /\ tpc = "encode" =>
          Range(encodes) =
              IF is_video_file(cur) THEN C15_VideoTargets
              ELSE C15_ImageTargets \cup (IF alpha THEN {C15_Png} ELSE {})
    /\ result # "heic_skip"

\* C15, amended: a video source has exactly the targets video/name.mp4,
\* video/name.webm and video/name.jpg; an image source that can be read has
\* exactly images/name.avif, images/name.webp and images/name.jpg, and
\* images/name.png if and only if its lower-cased extension is .png or .webp
\* or, for any other extension, transparency was detected; a HEIC source whose
\* conversion is unavailable has no target at all; nothing but a target of the
\* current source is ever encoded
C15_TargetOutputs ==
    /\ tpc = "encode" =>
          Range(encodes) =
              IF is_video_file(cur) THEN C15_VideoTargets
              ELSE C15_ImageTargets \cup
                      (IF C15_PngOrWebpSource \/ alpha THEN {C15_Png} ELSE {})
    /\ alpha => ~C15_PngOrWebpSource
    /\ result = "heic_skip" =>
          needs_heic_conversion(cur) /\ encodes = <<>> /\ ran = {}
    /\ cur # NoFile =>
          RanOutputs \subseteq
              IF is_video_file(cur) THEN C15_VideoTargets
              ELSE C15_ImageTargets \cup {C15_Png}

\* a .png source in which no transparency was detected, and its PNG encoded
C15_Witness ==
    /\ Lower(Suffix(cur.name)) = <<".", "p", "n", "g">>
    /\ ~alpha
    /\ C15_Png \in RanOutputs
    /\ result = "done"

\* a source of another extension whose PNG comes from the detection
C15_WitnessAlpha ==
    /\ ~C15_PngOrWebpSource
    /\ alpha
    /\ C15_Png \in RanOutputs

\* a video source with its three targets encoded
C15_WitnessVideo ==
    /\ cur # NoFile
    /\ is_video_file(cur)
    /\ RanOutputs = C15_VideoTargets


-----------------------------------------------------------------------------
(* C17: what main hands to transcode_file                                   *)

C17_Allowed(f) == Lower(Suffix(f.name)) \in ALLOWED_EXT

\* the sources waiting and the source being processed are regular files of
\* the source directory with an allowed extension, in ascending name order; the
\* current one is a video or an image and never both
C17_Inv ==
    /\ VIDEO_EXT \cap IMAGE_EXT = {}
    /\ \A i \in 1..Len(queue) :
          /\ queue[i] \in srcdir
          /\ queue[i].isFile
          /\ C17_Allowed(queue[i])
          /\ \A j \in (i+1)..Len(queue) : StrLess(queue[i].name, queue[j].name)
    /\ cur # NoFile =>
          /\ cur \in srcdir
          /\ cur.isFile
          /\ C17_Allowed(cur)
          /\ is_video_file(cur) # is_image_file(cur)
          /\ \A i \in 1..Len(queue) : StrLess(cur.name, queue[i].name)
    /\ result # "unknown"
    /\ tpc = "video" => is_video_file(cur)
    /\ tpc = "image" => is_image_file(cur)

\* each source handed to transcode_file follows the previous one in name order
C17_Step ==
    (cur' # cur /\ cur # NoFile) => StrLess(cur.name, cur'.name)

\* C17: every file the transcoder processes is a regular file of the source
\* directory with an allowed extension, files are processed in sorted name
\* order, each is classified by its lower-cased extension as exactly one of
\* video and image, and the "Unknown file type" branch is never taken
C17_OnlyAllowedInOrder == []C17_Inv /\ [][C17_Step]_vars

\* a source processed to its end while the directory also holds an entry that
\* must not be processed (a file of another extension, or a sub-directory)
C17_Witness ==
    /\ cur # NoFile
    /\ result = "done"
    /\ \E f \in srcdir : ~f.isFile \/ ~C17_Allowed(f)

\* the second of two sources, an upper-case extension before a lower-case one
C17_WitnessOrder ==
    /\ cur # NoFile
    /\ result = "done"
    /\ \E f \in srcdir :
          /\ f.isFile
          /\ C17_Allowed(f)
          /\ Suffix(f.name) # Lower(Suffix(f.name))
          /\ StrLess(f.name, cur.name)


-----------------------------------------------------------------------------
(* C16: the two front-ends                                                  *)

\* the responses of app.py
C16_AppKinds == {"app_health", "app_index", "app_upload"}

\* a job of voice_uploader/app.py whose file was saved and whose worker thread
\* was started
C16_Running(id) ==
    /\ id \in DOMAIN jobs
    /\ id \in DOMAIN wk
    /\ \E f \in uploadDir : f.id = id

\* C16 as stated: both front-ends accept a file, save it, start a background
\* thread and expose the job's status through a lock-guarded dictionary: a
\* file posted to either of them is not answered "no such view", and the
\* dictionary is inserted into and updated only under the lock
C16_Original ==
    /\ (resp.kind \in {"upload", "app_upload"} /\ C7_Acceptable(resp.file))
          => resp.code # 404
    /\ unlocked \cap {"upload_audio", "set_job"} = {}

C16_Step ==
    /\ resp'.kind \in C16_AppKinds =>
          /\ resp'.code = 200 <=> resp'.kind \in {"app_health", "app_index"}
          /\ resp'.kind = "app_upload" => resp'.code = 404
          /\ jobs' = jobs /\ jobs_lock' = jobs_lock /\ nextId' = nextId
          /\ uploadDir' = uploadDir /\ wk' = wk /\ issued' = issued
    /\ (resp'.kind = "upload" /\ resp'.code = 200) =>
          /\ C7_Acceptable(resp'.file)
          /\ resp'.id \in DOMAIN jobs'
          /\ resp'.id \in DOMAIN wk'
          /\ \E f \in uploadDir' : f.id = resp'.id
    /\ (resp'.kind = "status" /\ resp'.code = 200) =>
          /\ resp'.id \in DOMAIN jobs'
          /\ resp'.status \in
                {"pending", "processing", "done", "error"}
    /\ jobs' # jobs => jobs_lock # "free"
    /\ DOMAIN wk' # DOMAIN wk =>
          \A id \in DOMAIN wk' \ DOMAIN wk :
             id \in DOMAIN jobs /\ \E f \in uploadDir : f.id = id
    /\ unlocked' \subseteq {"job_status", "download_output"}

\* C16, amended: only voice_uploader/app.py is an upload front-end. It answers
\* an accepted upload after the file is saved, the job is in the jobs
\* dictionary and the worker thread is started; the dictionary changes only
\* while jobs_lock is held, and the only accesses made without the lock are
\* the field reads of the status and download handlers; a status answer is for
\* a job of the dictionary. app.py answers GET /health and GET / with 200 and a
\* posted file with 404, and saves no file, starts no thread and keeps no job.
C16_OnlyVoiceUploaderUploads == [][C16_Step]_vars

\* app.py has just refused a file that voice_uploader/app.py accepts, while a
\* job of voice_uploader/app.py is running
C16_Witness ==
    /\ resp.kind = "app_upload"
    /\ resp.code = 404
    /\ C7_Acceptable(resp.file)
    /\ \E id \in DOMAIN jobs : C16_Running(id) /\ wk[id] # "finished"

====
